---------------------------- MODULE Spec2Model ----------------------------
(***************************************************************************)
(* Verification model of preciouss: the proportional allocator            *)
(* (ledger/writer.py), the deduplicator and the cross-platform resolver   *)
(* (cli.py), the clearing link propagator (matching/clearing.py with the  *)
(* default matcher of importers/base.py) and the three-phase matching     *)
(* engine (matching/engine.py).                                           *)
(*                                                                         *)
(* Each component has its own variables, its own initial condition and    *)
(* its own specification; the variables of the other components stay at   *)
(* their idle values.  Money is an integer number of cents, a date an     *)
(* integer number of days, an absent value (Python None) is the string    *)
(* NONE and the empty string is "".                                       *)
(***************************************************************************)
EXTENDS Integers, Sequences, FiniteSets, TLC

NONE == "<None>"

VARIABLES
    \* group_items_by_category
    items, total_payment, by_category, alloc_pc,
    \* _deduplicate
    dd_input, dd_result, dd_pc,
    \* assign_clearing_links / _dfs_propagate
    transactions, importer_map, clr_pc, scan_i, current, link_name, link_counter,
    total_linked, unmatched_terminal, linked_count,
    \* history: the input list, and how often each transaction's link was written
    transactions0, tag_count,
    \* _resolve_cross_platform
    importers, all_txns_by_importer, warnings, res_pc, imp_pos, tx_pos,
    visited, current_target, resolved, current_keywords,
    \* history: what the resolution of the last transaction came to
    outcome,
    \* MatchingEngine.match
    match_input, remaining, all_matches, match_pc,
    \* _amounts_match and match_clearing called on a pair, in both orders
    pair_txs, am_ab, am_ba, mc_ab, mc_ba, pair_pc,
    \* resolve_payment_to_clearing: the arguments of the call and its result
    rpc_method, rpc_platform, rpc_result, rpc_pc,
    \* write_transactions: its arguments, the loop position, the entries
    \* built and the entries written
    wr_transactions, wr_counter_account, wr_pos, bean_entries, wr_output, wr_pc,
    \* match_clearing: the seed (first) with its candidates, and the result
    mcl_txs, mcl_result, mcl_pc,
    \* import_cmd: the lists the importers extract, all_txns_by_importer, the
    \* loop position, the files written, the calls made so far, the position
    \* in the code
    ic_extracted, ic_all_txns, ic_pos, ic_written, ic_calls, ic_pc

allocVars == <<items, total_payment, by_category, alloc_pc>>
dedupVars == <<dd_input, dd_result, dd_pc>>
clrVars == <<transactions, importer_map, clr_pc, scan_i, current, link_name, link_counter,
             total_linked, unmatched_terminal, linked_count, transactions0, tag_count>>
resVars == <<importers, all_txns_by_importer, warnings, res_pc, imp_pos, tx_pos,
             visited, current_target, resolved, current_keywords, outcome>>
matchVars == <<match_input, remaining, all_matches, match_pc>>
pairVars == <<pair_txs, am_ab, am_ba, mc_ab, mc_ba, pair_pc>>
rpcVars == <<rpc_method, rpc_platform, rpc_result, rpc_pc>>
wrVars == <<wr_transactions, wr_counter_account, wr_pos, bean_entries, wr_output, wr_pc>>
mclVars == <<mcl_txs, mcl_result, mcl_pc>>
icVars == <<ic_extracted, ic_all_txns, ic_pos, ic_written, ic_calls, ic_pc>>
vars == <<allocVars, dedupVars, clrVars, resVars, matchVars, pairVars, rpcVars, wrVars, mclVars, icVars>>

\* the variables a component leaves alone
allocOthers == <<dedupVars, clrVars, resVars, matchVars, pairVars, rpcVars, wrVars, mclVars, icVars>>
dedupOthers == <<allocVars, clrVars, resVars, matchVars, pairVars, rpcVars, wrVars, mclVars, icVars>>
clrOthers == <<allocVars, dedupVars, resVars, matchVars, pairVars, rpcVars, wrVars, mclVars, icVars>>
resOthers == <<allocVars, dedupVars, clrVars, matchVars, pairVars, rpcVars, wrVars, mclVars, icVars>>
matchOthers == <<allocVars, dedupVars, clrVars, resVars, pairVars, rpcVars, wrVars, mclVars, icVars>>
pairOthers == <<allocVars, dedupVars, clrVars, resVars, matchVars, rpcVars, wrVars, mclVars, icVars>>
rpcOthers == <<allocVars, dedupVars, clrVars, resVars, matchVars, pairVars, wrVars, mclVars, icVars>>
wrOthers == <<allocVars, dedupVars, clrVars, resVars, matchVars, pairVars, rpcVars, mclVars, icVars>>
mclOthers == <<allocVars, dedupVars, clrVars, resVars, matchVars, pairVars, rpcVars, wrVars, icVars>>
icOthers == <<allocVars, dedupVars, clrVars, resVars, matchVars, pairVars, rpcVars, wrVars, mclVars>>

-----------------------------------------------------------------------------
(* Generic helpers *)

Abs(x) == IF x < 0 THEN -x ELSE x

Sgn(x) == IF x > 0 THEN 1 ELSE IF x < 0 THEN -1 ELSE 0

Range(s) == {s[i] : i \in 1..Len(s)}

RECURSIVE SeqsUpTo(_, _)
\* all sequences over S of length 0..n
SeqsUpTo(S, n) ==
    IF n = 0 THEN {<<>>}
    ELSE LET shorter == SeqsUpTo(S, n - 1)
         IN  shorter \cup {Append(s, x) : s \in {t \in shorter : Len(t) = n - 1}, x \in S}

RECURSIVE SumSeq(_)
SumSeq(s) == IF s = <<>> THEN 0 ELSE Head(s) + SumSeq(Tail(s))

-----------------------------------------------------------------------------
(* Idle values of the components a specification does not exercise *)

AllocIdle == items = <<>> /\ total_payment = 0 /\ by_category = <<>> /\ alloc_pc = "idle"
DedupIdle == dd_input = <<>> /\ dd_result = <<>> /\ dd_pc = "idle"

ClrIdle ==
    /\ transactions = <<>> /\ importer_map = <<>> /\ clr_pc = "idle" /\ scan_i = 0
    /\ current = 0 /\ link_name = NONE /\ link_counter = 0 /\ total_linked = 0
    /\ unmatched_terminal = 0 /\ linked_count = 0 /\ transactions0 = <<>>
    /\ tag_count = <<>>

\* no transaction has been resolved yet
NoOutcome ==
    [reference_id |-> NONE, revisit |-> FALSE, reached |-> NONE,
     source_account |-> NONE, warned |-> 0]

ResIdle ==
    /\ importers = <<>> /\ all_txns_by_importer = <<>> /\ warnings = <<>>
    /\ res_pc = "idle" /\ imp_pos = 0 /\ tx_pos = 0 /\ visited = {}
    /\ current_target = NONE /\ resolved = FALSE /\ current_keywords = <<>>
    /\ outcome = NoOutcome

MatchIdle ==
    match_input = <<>> /\ remaining = <<>> /\ all_matches = <<>> /\ match_pc = "idle"

PairIdle ==
    /\ pair_txs = <<>> /\ am_ab = FALSE /\ am_ba = FALSE /\ mc_ab = 0 /\ mc_ba = 0
    /\ pair_pc = "idle"

RpcIdle ==
    rpc_method = "" /\ rpc_platform = "" /\ rpc_result = NONE /\ rpc_pc = "idle"

WrIdle ==
    /\ wr_transactions = <<>> /\ wr_counter_account = NONE /\ wr_pos = 0
    /\ bean_entries = <<>> /\ wr_output = <<>> /\ wr_pc = "idle"

MclIdle ==
    mcl_txs = <<>> /\ mcl_result = 0 /\ mcl_pc = "idle"

IcIdle ==
    /\ ic_extracted = <<>> /\ ic_all_txns = <<>> /\ ic_pos = 0
    /\ ic_written = <<>> /\ ic_calls = <<>> /\ ic_pc = "idle"

AllocOthersIdle == DedupIdle /\ ClrIdle /\ ResIdle /\ MatchIdle /\ PairIdle /\ RpcIdle /\ WrIdle /\ MclIdle /\ IcIdle
DedupOthersIdle == AllocIdle /\ ClrIdle /\ ResIdle /\ MatchIdle /\ PairIdle /\ RpcIdle /\ WrIdle /\ MclIdle /\ IcIdle
ClrOthersIdle == AllocIdle /\ DedupIdle /\ ResIdle /\ MatchIdle /\ PairIdle /\ RpcIdle /\ WrIdle /\ MclIdle /\ IcIdle
ResOthersIdle == AllocIdle /\ DedupIdle /\ ClrIdle /\ MatchIdle /\ PairIdle /\ RpcIdle /\ WrIdle /\ MclIdle /\ IcIdle
MatchOthersIdle == AllocIdle /\ DedupIdle /\ ClrIdle /\ ResIdle /\ PairIdle /\ RpcIdle /\ WrIdle /\ MclIdle /\ IcIdle
PairOthersIdle == AllocIdle /\ DedupIdle /\ ClrIdle /\ ResIdle /\ MatchIdle /\ RpcIdle /\ WrIdle /\ MclIdle /\ IcIdle
RpcOthersIdle == AllocIdle /\ DedupIdle /\ ClrIdle /\ ResIdle /\ MatchIdle /\ PairIdle /\ WrIdle /\ MclIdle /\ IcIdle
WrOthersIdle == AllocIdle /\ DedupIdle /\ ClrIdle /\ ResIdle /\ MatchIdle /\ PairIdle /\ RpcIdle /\ MclIdle /\ IcIdle
MclOthersIdle == AllocIdle /\ DedupIdle /\ ClrIdle /\ ResIdle /\ MatchIdle /\ PairIdle /\ RpcIdle /\ WrIdle /\ IcIdle
IcOthersIdle == AllocIdle /\ DedupIdle /\ ClrIdle /\ ResIdle /\ MatchIdle /\ PairIdle /\ RpcIdle /\ WrIdle /\ MclIdle

-----------------------------------------------------------------------------
(***************************************************************************)
(* Proportional allocator: group_items_by_category (ledger/writer.py).    *)
(*                                                                         *)
(* Python evaluates                                                        *)
(*     scale     = total_payment / listed_total                            *)
(*     effective = (listed * scale).quantize(Decimal("0.01"))              *)
(* in the default decimal context: every division and multiplication is   *)
(* rounded half-even to DecimalPrec significant digits and quantize       *)
(* rounds half-even to cents.  With L, T, S the cents of listed,          *)
(* total_payment and listed_total, the exact value is L*T/S cents.  The   *)
(* context rounding moves it by less than 10^-17 cents, so it only        *)
(* matters when L*T/S lies exactly half-way between two cents and T/S has *)
(* no finite decimal expansion; Effective works that case out digit by    *)
(* digit.  All amounts are below 10^5 cents, so no product leaves the     *)
(* 32-bit integers.                                                        *)
(***************************************************************************)

MaxItems == 3

DecimalPrec == 28

\* category names in the order Python's sorted() puts them
CategoryOrder == <<"Expenses:Food", "Expenses:Home", "Expenses:Other">>

\* items as the importers store them: price in cents, num, category
ItemChoices ==
    {[price |-> p, num |-> n, category |-> c] :
        p \in {0, 1, 3}, n \in {1, 2}, c \in {"Expenses:Food", "Expenses:Home"}}
    \cup {[price |-> 3390, num |-> 1, category |-> "Expenses:Home"],
          [price |-> 11590, num |-> 1, category |-> "Expenses:Food"],
          [price |-> -3, num |-> 1, category |-> "Expenses:Other"]}

TotalChoices == {0, 1, 5, 7, 14180, -5}

RECURSIVE GCD(_, _)
GCD(a, b) == IF b = 0 THEN a ELSE GCD(b, a % b)

RECURSIVE Digits(_)
\* number of decimal digits of n >= 0
Digits(n) == IF n < 10 THEN 1 ELSE 1 + Digits(n \div 10)

RECURSIVE Strip25(_)
\* n > 0 without its factors 2 and 5
Strip25(n) ==
    IF n % 2 = 0 THEN Strip25(n \div 2)
    ELSE IF n % 5 = 0 THEN Strip25(n \div 5)
    ELSE n

RECURSIVE NegLog10(_, _, _)
\* for 0 < T < S: the least e >= 1 with T * 10^e >= S
NegLog10(T, S, e) == IF T * 10 >= S THEN e ELSE NegLog10(T * 10, S, e + 1)

\* floor(log10(T/S)) for T, S > 0
FloorLog10(T, S) == IF T >= S THEN Digits(T \div S) - 1 ELSE -NegLog10(T, S, 1)

RECURSIVE ShiftMod(_, _, _)
\* (r * 10^k) mod S
ShiftMod(r, k, S) == IF k = 0 THEN r ELSE ShiftMod((r * 10) % S, k - 1, S)

RECURSIVE Pow10(_)
Pow10(m) == IF m = 0 THEN 1 ELSE 10 * Pow10(m - 1)

\* round-half-even of n + 1/2
HalfEven(n) == IF n % 2 = 0 THEN n ELSE n + 1

\* |(L/100 * (T/S)).quantize(0.01)| in cents, for L, T >= 0 and S > 0
EffectiveAbs(L, T, S) ==
    IF L = 0 \/ T = 0 THEN 0
    ELSE
    LET X   == L * T
        n   == X \div S
        rem == X % S
    IN  IF 2 * rem < S THEN n
        ELSE IF 2 * rem > S THEN n + 1
        ELSE IF Strip25(S \div GCD(T, S)) = 1
             THEN HalfEven(n)          \* scale is exact: a true tie
        ELSE
        LET j   == FloorLog10(T, S)
            k   == (DecimalPrec - 1) - j     \* scale = M * 10^-k, M of DecimalPrec digits
            r   == ShiftMod(T % S, k, S)
            up  == 2 * r > S                 \* scale was rounded up
            dev == IF up THEN (L * (S - r)) \div S ELSE (L * r) \div S
            \* digits the product L * M has beyond DecimalPrec
            m   == Digits(5 * (2 * n + 1)) + k - 1 - DecimalPrec
        IN  IF m <= 0 THEN (IF up THEN n + 1 ELSE n)
            ELSE IF m >= 5 \/ 2 * dev <= Pow10(m) THEN HalfEven(n)
            ELSE (IF up THEN n + 1 ELSE n)

\* (listed * scale).quantize(Decimal("0.01")) in cents; S # 0
Effective(L, T, S) == Sgn(L) * Sgn(T) * Sgn(S) * EffectiveAbs(Abs(L), Abs(T), Abs(S))

\* Decimal(item["price"]) * int(item["num"])
Listed(item) == item.price * item.num

listed_total(its) == SumSeq([i \in 1..Len(its) |-> Listed(its[i])])

\* a test that lets only the empty item list return early
ListedTotalIsZeroEmptyOnly(its) == its = <<>>

\* if listed_total == 0: return []
ListedTotalIsZero(its) == listed_total(its) = 0

\* scale = total_payment / listed_total raises DivisionByZero, or
\* InvalidOperation for 0 / 0, when it is reached with a zero divisor
ScaleRaises(its, T) == ~ListedTotalIsZero(its) /\ listed_total(its) = 0

\* the categories of the items, sorted by name
SortedCategories(its) ==
    LET cats == {its[i].category : i \in 1..Len(its)}
    IN  SelectSeq(CategoryOrder, LAMBDA c : c \in cats)

\* the by_category entry of one account: total of the effective amounts and
\* the positions of its items, in item order
CategoryEntry(its, T, acct) ==
    LET S   == listed_total(its)
        idx == SelectSeq([i \in 1..Len(its) |-> i], LAMBDA i : its[i].category = acct)
    IN  [acct  |-> acct,
         total |-> SumSeq([p \in 1..Len(idx) |-> Effective(Listed(its[idx[p]]), T, S)]),
         its   |-> idx]

\* the last of the largest totals
MaxIdxLast(result) ==
    CHOOSE i \in 1..Len(result) :
        /\ \A k \in 1..Len(result) : result[k].total <= result[i].total
        /\ \A k \in (i + 1)..Len(result) : result[k].total < result[i].total

\* max(range(len(result)), key=lambda i: result[i][1]): the first largest
MaxIdx(result) ==
    CHOOSE i \in 1..Len(result) :
        /\ \A k \in 1..Len(result) : result[k].total <= result[i].total
        /\ \A k \in 1..(i - 1) : result[k].total < result[i].total

\* group_items_by_category without the rounding correction of lines 118-122
group_items_uncorrected(its, T) ==
    IF ListedTotalIsZero(its) THEN <<>>
    ELSE LET cats == SortedCategories(its)
         IN  [c \in 1..Len(cats) |-> CategoryEntry(its, T, cats[c])]

group_items_by_category(its, T) ==
    IF ListedTotalIsZero(its) THEN <<>>
    ELSE
    LET cats          == SortedCategories(its)
        result        == [c \in 1..Len(cats) |-> CategoryEntry(its, T, cats[c])]
        rounding_diff == T - SumSeq([c \in 1..Len(result) |-> result[c].total])
    IN  IF rounding_diff # 0 /\ Len(result) > 0
        THEN [result EXCEPT ![MaxIdx(result)].total = @ + rounding_diff]
        ELSE result

AllocInputs == SeqsUpTo(ItemChoices, MaxItems)

InitAlloc ==
    /\ items \in AllocInputs
    /\ total_payment \in TotalChoices
    /\ by_category = <<>>
    /\ alloc_pc = "call"
    /\ AllocOthersIdle

\* the call group_items_by_category(items, total_payment): it returns, or
\* the division of line 103 raises and nothing is returned
GroupItems ==
    /\ alloc_pc = "call"
    /\ IF ScaleRaises(items, total_payment)
       THEN by_category' = <<>> /\ alloc_pc' = "raised"
       ELSE /\ by_category' = group_items_by_category(items, total_payment)
            /\ alloc_pc' = "done"
    /\ UNCHANGED <<items, total_payment>>
    /\ UNCHANGED allocOthers

NextAlloc == GroupItems

SpecAlloc == InitAlloc /\ [][NextAlloc]_vars

\* C1: whenever the listed subtotals sum to a non-zero value, the amounts
\* of the returned allocations sum to exactly the target total.
C1_AllocationSumsToTarget ==
    (alloc_pc = "done" /\ listed_total(items) # 0)
        => SumSeq([c \in 1..Len(by_category) |-> by_category[c].total]) = total_payment

\* an item's scaled amount was rounded away from its exact value, the
\* category totals did not add up and the residual was moved
C1_Witness ==
    /\ alloc_pc = "done"
    /\ listed_total(items) # 0
    /\ Len(by_category) >= 2
    /\ \E i \in 1..Len(items) :
          (Listed(items[i]) * total_payment) % Abs(listed_total(items)) # 0
    /\ SumSeq([c \in 1..Len(by_category) |->
                  CategoryEntry(items, total_payment, by_category[c].acct).total])
          # total_payment

\* C18: whenever the listed subtotals sum to zero, the empty item list
\* included, group_items_by_category returns the empty list and raises no
\* division error, whatever the target total.
C18_ZeroListedTotalReturnsEmpty ==
    (alloc_pc # "call" /\ listed_total(items) = 0)
        => (alloc_pc = "done" /\ by_category = <<>>)

\* items with non-zero subtotals that cancel, and a non-zero target total
C18_Witness ==
    /\ alloc_pc = "done"
    /\ by_category = <<>>
    /\ total_payment # 0
    /\ listed_total(items) = 0
    /\ \E i \in 1..Len(items) : Listed(items[i]) # 0

-----------------------------------------------------------------------------
(***************************************************************************)
(* Deduplicator: _deduplicate (cli.py).  A transaction is its position in *)
(* the input (uid, the object's identity) and its reference_id; the test  *)
(* on line 162 is "is None", so the empty string is a reference id like   *)
(* any other.                                                              *)
(***************************************************************************)

MaxDedup == 4

DedupRefs == {NONE, "", "REF001", "REF002", "REF003"}

DedupInputs ==
    {[i \in 1..Len(rs) |-> [uid |-> i, reference_id |-> rs[i]]] :
        rs \in SeqsUpTo(DedupRefs, MaxDedup)}

RECURSIVE DedupLoopNoneAsId(_, _, _)
\* the loop without the "is None" branch of line 162
DedupLoopNoneAsId(rest, seen_refs, result) ==
    IF rest = <<>> THEN result
    ELSE LET tx == Head(rest)
         IN  IF tx.reference_id \notin seen_refs
             THEN DedupLoopNoneAsId(Tail(rest), seen_refs \cup {tx.reference_id},
                                    Append(result, tx))
             ELSE DedupLoopNoneAsId(Tail(rest), seen_refs, result)

RECURSIVE DedupLoop(_, _, _)
\* the for loop of _deduplicate over the rest of the list
DedupLoop(rest, seen_refs, result) ==
    IF rest = <<>> THEN result
    ELSE LET tx == Head(rest)
         IN  IF tx.reference_id = NONE
             THEN DedupLoop(Tail(rest), seen_refs, Append(result, tx))
             ELSE IF tx.reference_id \notin seen_refs
             THEN DedupLoop(Tail(rest), seen_refs \cup {tx.reference_id}, Append(result, tx))
             ELSE DedupLoop(Tail(rest), seen_refs, result)

deduplicate(txns) == DedupLoop(txns, {}, <<>>)

InitDedup ==
    /\ dd_input \in DedupInputs
    /\ dd_result = <<>>
    /\ dd_pc = "call"
    /\ DedupOthersIdle

\* the call _deduplicate(dd_input)
Deduplicate ==
    /\ dd_pc = "call"
    /\ dd_result' = deduplicate(dd_input)
    /\ dd_pc' = "done"
    /\ UNCHANGED dd_input
    /\ UNCHANGED dedupOthers

NextDedup == Deduplicate

SpecDedup == InitDedup /\ [][NextDedup]_vars

\* position i of the input is kept: it has no reference_id, or no earlier
\* position has its reference_id
FirstOccurrence(txs, i) ==
    \/ txs[i].reference_id = NONE
    \/ \A j \in 1..(i - 1) : txs[j].reference_id # txs[i].reference_id

\* C2: the result is the subsequence of the input made of every
\* transaction without a reference_id and the first occurrence of every
\* reference_id, in input order.
C2_DedupKeepsFirstOccurrences ==
    dd_pc = "done" =>
        /\ dd_result = SelectSeq(dd_input, LAMBDA tx : FirstOccurrence(dd_input, tx.uid))
        /\ \A i \in 1..Len(dd_input) :
              dd_input[i].reference_id = NONE
                  => \E k \in 1..Len(dd_result) : dd_result[k] = dd_input[i]
        /\ \A k, l \in 1..Len(dd_result) : k < l => dd_result[k].uid < dd_result[l].uid

\* [A, B, A', C] with a record without reference_id next to it: a
\* duplicate was dropped and two records without reference_id were kept
C2_Witness ==
    /\ dd_pc = "done"
    /\ Len(dd_result) < Len(dd_input)
    /\ \E i, j \in 1..Len(dd_input) :
          i < j /\ dd_input[i].reference_id = NONE /\ dd_input[j].reference_id = NONE
    /\ \E i, j \in 1..Len(dd_input) :
          /\ i < j
          /\ dd_input[i].reference_id = dd_input[j].reference_id
          /\ dd_input[i].reference_id \notin {NONE, ""}

-----------------------------------------------------------------------------
(***************************************************************************)
(* Default clearing matcher: _amounts_match and                            *)
(* PrecioussImporter.match_clearing (importers/base.py).  Transactions    *)
(* are referred to by their position in the list txs (object identity);   *)
(* match_clearing returns the position of the chosen candidate, 0 for     *)
(* None.                                                                   *)
(***************************************************************************)

\* Python truthiness of an optional string
Truthy(v) == v # NONE /\ v # ""

StartsWith(str, prefix) ==
    Len(str) >= Len(prefix) /\ SubSeq(str, 1, Len(prefix)) = prefix

is_clearing_account(account) == StartsWith(account, "Assets:Clearing:")

\* timedelta(days=3) of match_clearing
ClearingDateTolerance == 3

DigitVal(ch) == CHOOSE d \in 0..9 : ToString(d) = ch

RECURSIVE ParseDigits(_, _)
\* the number written by a string of digits, appended to acc
ParseDigits(str, acc) ==
    IF Len(str) = 0 THEN acc
    ELSE ParseDigits(SubSeq(str, 2, Len(str)), 10 * acc + DigitVal(SubSeq(str, 1, 1)))

\* Decimal(fa) in cents, for fa written as digits with at most two decimals
DecimalCents(fa) ==
    LET dots == {k \in 1..Len(fa) : SubSeq(fa, k, k) = "."}
    IN  IF dots = {} THEN 100 * ParseDigits(fa, 0)
        ELSE LET k    == CHOOSE d \in dots : TRUE
                 frac == SubSeq(fa, k + 1, Len(fa))
             IN  100 * ParseDigits(SubSeq(fa, 1, k - 1), 0)
                   + (IF Len(frac) = 1 THEN 10 * ParseDigits(frac, 0)
                      ELSE ParseDigits(frac, 0))

\* one direction of the cross-currency test of lines 46-49; tx.foreign_amount
\* and tx.foreign_currency are metadata["wechathk_foreign_amount"] and
\* metadata["wechathk_foreign_currency"]
ForeignMatches(tx1, tx2) ==
    /\ Truthy(tx1.foreign_amount)
    /\ Truthy(tx1.foreign_currency)
    /\ tx1.foreign_currency = tx2.currency
    /\ DecimalCents(tx1.foreign_amount) = Abs(tx2.amount)

\* _amounts_match looking at the metadata of its first argument only
amounts_match_first_only(a, b) ==
    \/ a.currency = b.currency /\ Abs(a.amount) = Abs(b.amount)
    \/ ForeignMatches(a, b)

amounts_match(a, b) ==
    \/ a.currency = b.currency /\ Abs(a.amount) = Abs(b.amount)
    \/ ForeignMatches(a, b)
    \/ ForeignMatches(b, a)

\* {r for r in [tx.reference_id, tx.counterpart_ref] if r}
RefSet(tx) == {r \in {tx.reference_id, tx.counterpart_ref} : Truthy(r)}

\* the first element of a sequence of positions that lies in good, else
\* 0: a for loop that returns on the first hit
FirstIn(seq, good) ==
    LET hits == {k \in 1..Len(seq) : seq[k] \in good}
    IN  IF hits = {} THEN 0
        ELSE seq[CHOOSE k \in hits : \A h \in hits : k <= h]

\* abs((seed_tx.date - c.date).total_seconds()), in days
Distance(txs, seed, c) == Abs(txs[seed].date - txs[c].date)

\* the candidates left in list order
CandidatesAsListed(txs, seed, candidates) == candidates

\* sorted(candidates, key=lambda c: abs((seed_tx.date - c.date).total_seconds())):
\* sorted is stable, so a candidate stands behind those that are nearer to
\* the seed and those that are as near and stood before it
SortedByDistance(txs, seed, candidates) ==
    LET n       == Len(candidates)
        Rank(k) == 1 + Cardinality({j \in 1..n :
                         \/ Distance(txs, seed, candidates[j]) < Distance(txs, seed, candidates[k])
                         \/ /\ Distance(txs, seed, candidates[j]) = Distance(txs, seed, candidates[k])
                            /\ j < k})
    IN  [r \in 1..n |-> candidates[CHOOSE k \in 1..n : Rank(k) = r]]

match_clearing(txs, seed, candidates) ==
    LET seed_refs == RefSet(txs[seed])
        sharing   == {c \in Range(candidates) : seed_refs \cap RefSet(txs[c]) # {}}
        fitting   == {c \in Range(candidates) :
                         /\ Distance(txs, seed, c) <= ClearingDateTolerance
                         /\ amounts_match(txs[seed], txs[c])}
        byRef     == FirstIn(candidates, sharing)
    IN  IF byRef # 0 THEN byRef
        ELSE FirstIn(SortedByDistance(txs, seed, candidates), fitting)

-----------------------------------------------------------------------------
(***************************************************************************)
(* Clearing link propagator: assign_clearing_links and _dfs_propagate     *)
(* (matching/clearing.py).  One action per iteration of the for loop of   *)
(* assign_clearing_links and per iteration of the while loop of           *)
(* _dfs_propagate.                                                         *)
(***************************************************************************)

MaxTxs == 3

JD == "Assets:Clearing:JD"
JDWX == "Assets:Clearing:JD:WX"
CMB == "Liabilities:CreditCard:CMB"
FOOD == "Expenses:Food"

ClrTx(src, ctr, typ, ref, cref, amt, day, lnk) ==
    [source_account |-> src, counter_account |-> ctr, tx_type |-> typ,
     reference_id |-> ref, counterpart_ref |-> cref,
     amount |-> amt, currency |-> "CNY", date |-> day,
     foreign_amount |-> NONE, foreign_currency |-> NONE, link |-> lnk]

\* the transactions a run is fed: terminal expenses, bridges, payments,
\* an income, a plain bank expense, already linked records, and for each
\* whether importer_map knows its importer
ClrTemplates ==
    {[tx |-> t, importer |-> "default"] : t \in {
        ClrTx(JD, NONE, "expense", "ORDER001", NONE, -10000, 0, NONE),
        ClrTx(JD, FOOD, "expense", NONE, NONE, -10000, 2, NONE),
        ClrTx(JD, NONE, "expense", NONE, NONE, -25000, 9, NONE),
        ClrTx(JDWX, "", "expense", NONE, NONE, -10000, 2, NONE),
        ClrTx(JDWX, JD, "expense", "JD_TRADE001", "ORDER001", -10000, 1, NONE),
        ClrTx(JDWX, JD, "expense", NONE, NONE, -10000, 2, NONE),
        ClrTx(JDWX, JD, "expense", NONE, NONE, -25000, 9, NONE),
        ClrTx(JD, JDWX, "expense", NONE, "JD_TRADE001", -10000, 1, NONE),
        ClrTx(JD, JDWX, "expense", NONE, NONE, -10000, 2, NONE),
        ClrTx(JD, JD, "expense", NONE, NONE, -10000, 3, NONE),
        ClrTx(CMB, JDWX, "expense", NONE, "JD_TRADE001", -10000, 1, NONE),
        ClrTx(CMB, JDWX, "expense", NONE, NONE, -10000, 2, NONE),
        ClrTx(CMB, JD, "expense", NONE, "ORDER001", -10000, 1, NONE),
        ClrTx(CMB, JD, "expense", NONE, NONE, -10000, 1, NONE),
        [ClrTx(CMB, JD, "expense", NONE, NONE, -10800, 0, NONE)
            EXCEPT !.currency = "HKD", !.foreign_amount = "100.00",
                   !.foreign_currency = "CNY"],
        ClrTx(JD, NONE, "income", "ORDER001", NONE, 10000, 0, NONE),
        ClrTx(CMB, NONE, "expense", NONE, NONE, -10000, 2, NONE),
        ClrTx(JD, NONE, "expense", "ORDER001", NONE, -10000, 0, "clr-000000"),
        ClrTx(JDWX, JD, "expense", "JD_TRADE001", "ORDER001", -10000, 1, "clr-000000")}}
    \cup {[tx |-> ClrTx(JD, NONE, "expense", "ORDER001", NONE, -10000, 0, NONE),
           importer |-> NONE]}

\* _is_terminal_expense without the test of tx_type of lines 25-26
is_terminal_any_type(tx) ==
    IF ~is_clearing_account(tx.source_account) THEN FALSE
    ELSE IF Truthy(tx.counter_account) /\ is_clearing_account(tx.counter_account) THEN FALSE
    ELSE TRUE

is_terminal_expense(tx) ==
    IF tx.tx_type # "expense" THEN FALSE
    ELSE IF ~is_clearing_account(tx.source_account) THEN FALSE
    ELSE IF Truthy(tx.counter_account) /\ is_clearing_account(tx.counter_account) THEN FALSE
    ELSE TRUE

\* counter_index keyed by source_account instead of counter_account
counter_index_by_source(txs) ==
    [acct \in {txs[i].source_account : i \in {k \in 1..Len(txs) :
                    is_clearing_account(txs[k].source_account)}} |->
        SelectSeq([i \in 1..Len(txs) |-> i], LAMBDA i : txs[i].source_account = acct)]

\* counter_index: clearing account -> positions whose counter_account it is
counter_index(txs) ==
    [acct \in {txs[i].counter_account : i \in {k \in 1..Len(txs) :
                    /\ Truthy(txs[k].counter_account)
                    /\ is_clearing_account(txs[k].counter_account)}} |->
        SelectSeq([i \in 1..Len(txs) |-> i], LAMBDA i : txs[i].counter_account = acct)]

\* counter_index.get(account, [])
IndexGet(cidx, account) == IF account \in DOMAIN cidx THEN cidx[account] ELSE <<>>

\* candidate_indices without the "no link yet" filter of line 102
candidate_indices_any(txs, cidx, cur) == IndexGet(cidx, txs[cur].source_account)

\* candidate_indices of lines 99-103
candidate_indices(txs, cidx, cur) ==
    SelectSeq(IndexGet(cidx, txs[cur].source_account), LAMBDA idx : ~Truthy(txs[idx].link))

\* one iteration of the while loop of _dfs_propagate: the position of the
\* transaction it tags, or 0 when the iteration breaks
WalkMatch(txs, imap, cur) ==
    IF ~is_clearing_account(txs[cur].source_account) THEN 0
    ELSE LET cands == candidate_indices(txs, counter_index(transactions0), cur)
         IN  IF cands = <<>> THEN 0
             ELSE IF imap[cur] = NONE THEN 0
             ELSE match_clearing(txs, cur, cands)

\* f"clr-{link_counter}", without the padding
LinkNameUnpadded(n) == "clr-" \o ToString(n)

\* f"clr-{link_counter:06d}"
LinkName(n) ==
    LET d == ToString(n)
    IN  "clr-" \o (IF Len(d) >= 6 THEN d ELSE SubSeq("000000", 1, 6 - Len(d)) \o d)

ClrInputs == SeqsUpTo(ClrTemplates, MaxTxs)

\* the inputs whose clearing accounts form cycles: bridges JD:WX->JD and
\* JD->JD:WX, a bridge from JD to itself, and the terminals and the
\* payment they connect; every hop matches by amount and date
ClrCyclicInputs ==
    SeqsUpTo({[tx |-> t, importer |-> "default"] : t \in {
                 ClrTx(JD, FOOD, "expense", NONE, NONE, -10000, 2, NONE),
                 ClrTx(JDWX, "", "expense", NONE, NONE, -10000, 2, NONE),
                 ClrTx(JDWX, JD, "expense", NONE, NONE, -10000, 2, NONE),
                 ClrTx(JD, JDWX, "expense", NONE, NONE, -10000, 2, NONE),
                 ClrTx(JD, JD, "expense", NONE, NONE, -10000, 3, NONE),
                 ClrTx(CMB, JD, "expense", NONE, NONE, -10000, 1, NONE)}}, MaxTxs)

InitClearing ==
    /\ transactions = <<>>
    /\ importer_map = <<>>
    /\ transactions0 = <<>>
    /\ tag_count = <<>>
    /\ clr_pc = "call"
    /\ scan_i = 0
    /\ current = 0
    /\ link_name = NONE
    /\ link_counter = 0
    /\ total_linked = 0
    /\ unmatched_terminal = 0
    /\ linked_count = 0
    /\ ClrOthersIdle

\* the call assign_clearing_links(transactions, importer_map) with its
\* arguments, lines 48-55: counter_index is built and the counters are 0
CallAssign ==
    /\ clr_pc = "call"
    /\ \E inp \in ClrInputs :
          /\ transactions' = [i \in 1..Len(inp) |-> inp[i].tx]
          /\ importer_map' = [i \in 1..Len(inp) |-> inp[i].importer]
          /\ transactions0' = [i \in 1..Len(inp) |-> inp[i].tx]
          /\ tag_count' = [i \in 1..Len(inp) |-> 0]
    /\ clr_pc' = "scan"
    /\ scan_i' = 1
    /\ link_counter' = 0
    /\ total_linked' = 0
    /\ unmatched_terminal' = 0
    /\ UNCHANGED <<current, link_name, linked_count>>
    /\ UNCHANGED clrOthers

\* for loop, lines 59-62: not a terminal expense, or already linked
ScanSkip ==
    /\ clr_pc = "scan"
    /\ scan_i <= Len(transactions)
    /\ \/ ~is_terminal_expense(transactions[scan_i])
       \/ Truthy(transactions[scan_i].link)
    /\ scan_i' = scan_i + 1
    /\ UNCHANGED <<transactions, importer_map, clr_pc, current, link_name, link_counter,
                   total_linked, unmatched_terminal, linked_count, transactions0, tag_count>>
    /\ UNCHANGED clrOthers

\* Seed without the "already linked" test of line 61
SeedAnyTerminal ==
    /\ clr_pc = "scan"
    /\ scan_i <= Len(transactions)
    /\ is_terminal_expense(transactions[scan_i])
    /\ transactions' = [transactions EXCEPT ![scan_i].link = LinkName(link_counter)]
    /\ tag_count' = [tag_count EXCEPT ![scan_i] = @ + 1]
    /\ link_counter' = link_counter + 1
    /\ total_linked' = total_linked + 1
    /\ linked_count' = 0
    /\ current' = scan_i
    /\ link_name' = LinkName(link_counter)
    /\ clr_pc' = "walk"
    /\ UNCHANGED <<importer_map, scan_i, unmatched_terminal, transactions0>>
    /\ UNCHANGED clrOthers

\* for loop, lines 64-69: seed a chain and enter _dfs_propagate (lines 89-91)
Seed ==
    /\ clr_pc = "scan"
    /\ scan_i <= Len(transactions)
    /\ is_terminal_expense(transactions[scan_i])
    /\ ~Truthy(transactions[scan_i].link)
    /\ transactions' = [transactions EXCEPT ![scan_i].link = LinkName(link_counter)]
    /\ tag_count' = [tag_count EXCEPT ![scan_i] = @ + 1]
    /\ link_counter' = link_counter + 1
    /\ total_linked' = total_linked + 1
    /\ linked_count' = 0
    /\ current' = scan_i
    /\ link_name' = LinkName(link_counter)
    /\ clr_pc' = "walk"
    /\ UNCHANGED <<importer_map, scan_i, unmatched_terminal, transactions0>>
    /\ UNCHANGED clrOthers

\* WalkStep that also clears the counter_account of the transaction it tags
WalkStepTakesOver ==
    /\ clr_pc = "walk"
    /\ linked_count < Len(transactions)
    /\ LET matched == WalkMatch(transactions, importer_map, current)
       IN  /\ matched # 0
           /\ transactions' = [transactions EXCEPT ![matched].link = link_name,
                                                   ![matched].counter_account = NONE]
           /\ tag_count' = [tag_count EXCEPT ![matched] = @ + 1]
           /\ current' = matched
    /\ linked_count' = linked_count + 1
    /\ UNCHANGED <<importer_map, clr_pc, scan_i, link_name, link_counter, total_linked,
                   unmatched_terminal, transactions0>>
    /\ UNCHANGED clrOthers

\* while loop, lines 93-130: an iteration that finds a match and tags it.
\* The walk cannot tag more transactions than the list holds.
WalkStep ==
    /\ clr_pc = "walk"
    /\ linked_count < Len(transactions)
    /\ LET matched == WalkMatch(transactions, importer_map, current)
       IN  /\ matched # 0
           /\ transactions' = [transactions EXCEPT ![matched].link = link_name]
           /\ tag_count' = [tag_count EXCEPT ![matched] = @ + 1]
           /\ current' = matched
    /\ linked_count' = linked_count + 1
    /\ UNCHANGED <<importer_map, clr_pc, scan_i, link_name, link_counter, total_linked,
                   unmatched_terminal, transactions0>>
    /\ UNCHANGED clrOthers

\* WalkEnd that counts a seed as unmatched only when its first iteration
\* found no candidate at all
WalkEndStep3Only ==
    /\ clr_pc = "walk"
    /\ WalkMatch(transactions, importer_map, current) = 0
    /\ IF linked_count # 0
       THEN total_linked' = total_linked + linked_count
            /\ UNCHANGED unmatched_terminal
       ELSE /\ unmatched_terminal' =
                  (IF candidate_indices(transactions, counter_index(transactions0),
                                        current) = <<>>
                   THEN unmatched_terminal + 1 ELSE unmatched_terminal)
            /\ UNCHANGED total_linked
    /\ scan_i' = scan_i + 1
    /\ clr_pc' = "scan"
    /\ UNCHANGED <<transactions, importer_map, current, link_name, link_counter,
                   linked_count, transactions0, tag_count>>
    /\ UNCHANGED clrOthers

\* while loop: an iteration that breaks; _dfs_propagate returns
\* linked_count and the for loop books it (lines 69-73)
WalkEnd ==
    /\ clr_pc = "walk"
    /\ WalkMatch(transactions, importer_map, current) = 0
    /\ IF linked_count # 0
       THEN total_linked' = total_linked + linked_count
            /\ UNCHANGED unmatched_terminal
       ELSE unmatched_terminal' = unmatched_terminal + 1
            /\ UNCHANGED total_linked
    /\ scan_i' = scan_i + 1
    /\ clr_pc' = "scan"
    /\ UNCHANGED <<transactions, importer_map, current, link_name, link_counter,
                   linked_count, transactions0, tag_count>>
    /\ UNCHANGED clrOthers

\* lines 75-79: the for loop is over, ClearingStats is returned
Finish ==
    /\ clr_pc = "scan"
    /\ scan_i > Len(transactions)
    /\ clr_pc' = "done"
    /\ UNCHANGED <<transactions, importer_map, scan_i, current, link_name, link_counter,
                   total_linked, unmatched_terminal, linked_count, transactions0, tag_count>>
    /\ UNCHANGED clrOthers

NextClearing == CallAssign \/ ScanSkip \/ Seed \/ WalkStep \/ WalkEnd \/ Finish

SpecClearing == InitClearing /\ [][NextClearing]_vars

\* a run on cyclic clearing accounts, at the head of the for loop
\* (lines 48-57 are done)
InitClearingCyclic ==
    /\ \E inp \in ClrCyclicInputs :
          /\ transactions = [i \in 1..Len(inp) |-> inp[i].tx]
          /\ importer_map = [i \in 1..Len(inp) |-> inp[i].importer]
          /\ transactions0 = [i \in 1..Len(inp) |-> inp[i].tx]
          /\ tag_count = [i \in 1..Len(inp) |-> 0]
    /\ clr_pc = "scan"
    /\ scan_i = 1
    /\ current = 0
    /\ link_name = NONE
    /\ link_counter = 0
    /\ total_linked = 0
    /\ unmatched_terminal = 0
    /\ linked_count = 0
    /\ ClrOthersIdle

RunClearing == ScanSkip \/ Seed \/ WalkStep \/ WalkEnd \/ Finish

\* the call is synchronous: it keeps taking steps until it returns
SpecClearingLive == InitClearingCyclic /\ [][RunClearing]_vars /\ WF_vars(RunClearing)

\* the permutations of 1..n, as sequences
Orderings(n) == {ord \in [1..n -> 1..n] : \A a, b \in 1..n : a # b => ord[a] # ord[b]}

\* the default matcher of hop lo, asked about hop up alone, returns it
Accepts(txs, imap, lo, up) ==
    imap[lo] # NONE /\ match_clearing(txs, lo, <<up>>) = up

\* txs, taken in the order ord, is a complete clearing chain of untagged
\* transactions: a terminal expense, then hops whose counter_account is
\* the (clearing) source_account of the hop below and which the matcher
\* of the hop below accepts
IsCompleteChain(txs, imap, ord) ==
    /\ Len(txs) >= 1
    /\ is_terminal_expense(txs[ord[1]])
    /\ \A k \in 1..Len(txs) : ~Truthy(txs[k].link)
    /\ \A k \in 2..Len(txs) :
          /\ txs[ord[k]].counter_account = txs[ord[k - 1]].source_account
          /\ is_clearing_account(txs[ord[k]].counter_account)
          /\ Accepts(txs, imap, ord[k - 1], ord[k])

\* all transactions carry the link of the first one, and the statistics
\* report one chain of Len(transactions) records
OneChainLinked ==
    /\ \A k \in 1..Len(transactions) :
          /\ Truthy(transactions[k].link)
          /\ transactions[k].link = transactions[1].link
    /\ link_counter = 1
    /\ total_linked = Len(transactions)

\* C3 as stated: every complete N-hop chain ends with one link on all N
\* transactions, total_chains = 1 and total_linked = N.
C3_Original_EveryChainFullyLinked ==
    (clr_pc = "done"
        /\ \E ord \in Orderings(Len(transactions0)) :
              IsCompleteChain(transactions0, importer_map, ord))
    => OneChainLinked

\* no two transactions of the list name the same counter_account, so
\* every hop has one candidate
DistinctCounterAccounts(txs) ==
    \A a, b \in 1..Len(txs) : a # b => txs[a].counter_account # txs[b].counter_account

\* C3 (amended): every complete N-hop chain in which no two transactions
\* name the same counter_account ends with one link on all N
\* transactions, total_chains = 1 and total_linked = N.
C3_SimpleChainFullyLinked ==
    (clr_pc = "done"
        /\ DistinctCounterAccounts(transactions0)
        /\ \E ord \in Orderings(Len(transactions0)) :
              IsCompleteChain(transactions0, importer_map, ord))
    => OneChainLinked

\* a three-leg chain (terminal, bridge, payment) has been walked to its end
C3_Witness ==
    /\ clr_pc = "done"
    /\ Len(transactions0) = 3
    /\ DistinctCounterAccounts(transactions0)
    /\ \E ord \in Orderings(3) : IsCompleteChain(transactions0, importer_map, ord)
    /\ total_linked = 3
    /\ transactions[3].link = "clr-000000"

\* C6: a link tag, once set (before the run or by it), is never changed
\* or cleared by a later step of the run.
C6_LinkNeverReassigned ==
    [][\A k \in 1..Len(transactions) :
          Truthy(transactions[k].link) => transactions'[k].link = transactions[k].link]_vars

\* the run is over; it tagged a chain of its own and left alone a record
\* that came in tagged and named the counter_account the walk looked up
C6_Witness ==
    /\ clr_pc = "done"
    /\ \E k \in 1..Len(transactions) : tag_count[k] = 1 /\ ~is_terminal_expense(transactions[k])
    /\ \E k, c \in 1..Len(transactions) :
          /\ Truthy(transactions0[k].link)
          /\ tag_count[k] = 0
          /\ tag_count[c] = 1
          /\ transactions0[k].counter_account = transactions0[c].source_account

\* the positions whose link is set
Tagged(txs) == {k \in 1..Len(txs) : Truthy(txs[k].link)}

\* C4: assign_clearing_links returns on every input, also when clearing
\* accounts form a cycle; every iteration of the chain walk either ends
\* the walk or tags exactly one transaction that was untagged, and no
\* transaction is tagged (and so made current) more than once in a run.
C4_WalkTerminates ==
    /\ <>(clr_pc = "done")
    /\ [](\A k \in 1..Len(transactions) : tag_count[k] <= 1)
    /\ [][clr_pc = "walk" =>
            \/ clr_pc' = "scan"
            \/ /\ Cardinality(Tagged(transactions')) = Cardinality(Tagged(transactions)) + 1
               /\ Tagged(transactions) \subseteq Tagged(transactions')
               /\ current' \in Tagged(transactions') \ Tagged(transactions)]_vars

\* the run is over after a walk went round a cycle of clearing accounts:
\* bridge A->B and bridge B->A were both tagged by one chain
C4_Witness ==
    /\ clr_pc = "done"
    /\ \E a, b \in 1..Len(transactions) :
          /\ a # b
          /\ tag_count[a] = 1 /\ tag_count[b] = 1
          /\ transactions[a].link = transactions[b].link
          /\ is_clearing_account(transactions[a].source_account)
          /\ is_clearing_account(transactions[b].source_account)
          /\ transactions[a].counter_account = transactions[b].source_account
          /\ transactions[b].counter_account = transactions[a].source_account

\* a terminal expense: an expense with a clearing source whose
\* counter_account is absent or not a clearing account
TerminalExpense(tx) ==
    /\ tx.tx_type = "expense"
    /\ StartsWith(tx.source_account, "Assets:Clearing:")
    /\ \/ tx.counter_account \in {NONE, ""}
       \/ ~StartsWith(tx.counter_account, "Assets:Clearing:")

\* the link ids of the chains started so far in this run
ChainIds == {LinkName(n) : n \in 0..(link_counter - 1)}

\* C16: a chain is started, with a fresh link id and counted in
\* total_chains, for exactly the untagged terminal expenses the for loop
\* comes to; a bridge, an income or a transaction with a non-clearing
\* source never starts a chain and is tagged only by a walk, with the id
\* of the chain that reached it.
C16_ChainsStartAtTerminalExpenses ==
    /\ [][clr_pc # "call" =>
            /\ link_counter' # link_counter =>
                  /\ clr_pc = "scan" /\ scan_i \in 1..Len(transactions)
                  /\ TerminalExpense(transactions[scan_i])
                  /\ transactions[scan_i].link \in {NONE, ""}
            /\ (/\ clr_pc = "scan" /\ scan_i \in 1..Len(transactions)
                /\ TerminalExpense(transactions[scan_i])
                /\ transactions[scan_i].link \in {NONE, ""}
                /\ scan_i' # scan_i \/ clr_pc' # clr_pc) =>
                  /\ link_counter' = link_counter + 1
                  /\ transactions'[scan_i].link \notin ChainIds
                  /\ transactions'[scan_i].link \in ChainIds'
                  /\ clr_pc' = "walk" /\ current' = scan_i
            /\ \A i \in 1..Len(transactions) :
                  (~TerminalExpense(transactions[i])
                      /\ transactions'[i].link # transactions[i].link) =>
                        /\ clr_pc = "walk"
                        /\ transactions[i].link \in {NONE, ""}
                        /\ transactions'[i].link = transactions[current].link
                        /\ transactions[i].counter_account = transactions[current].source_account
       ]_vars
    /\ [](clr_pc = "done" =>
            link_counter = Cardinality({i \in 1..Len(transactions0) :
                                           /\ TerminalExpense(transactions0[i])
                                           /\ transactions0[i].link \in {NONE, ""}}))

\* the run is over: one terminal expense started the only chain, the walk
\* tagged a bridge with its id, and an income on a clearing account or an
\* expense on a bank account was left untagged
C16_Witness ==
    /\ clr_pc = "done"
    /\ link_counter = 1
    /\ \E i, j, k \in 1..Len(transactions) :
          /\ TerminalExpense(transactions0[i])
          /\ transactions0[i].link = NONE /\ transactions[i].link = "clr-000000"
          /\ StartsWith(transactions[j].source_account, "Assets:Clearing:")
          /\ transactions[j].counter_account = transactions[i].source_account
          /\ transactions0[j].link = NONE /\ transactions[j].link = "clr-000000"
          /\ ~TerminalExpense(transactions[k])
          /\ \/ transactions[k].tx_type = "income"
             \/ ~StartsWith(transactions[k].source_account, "Assets:Clearing:")
          /\ transactions[k].link = NONE

\* no transaction of the input carried a link
UntaggedInput == \A i \in 1..Len(transactions0) : transactions0[i].link \in {NONE, ""}

\* the for loop has seeded position i
SeedingPassed(i) == i < scan_i \/ (i = scan_i /\ clr_pc = "walk")

\* "clr-" followed by k - 1 written with six digits, for k <= 10
ExpectedLinkId(k) == "clr-00000" \o ToString(k - 1)

\* position i is the k-th terminal expense of the input
TerminalRank(i) ==
    Cardinality({j \in 1..i : TerminalExpense(transactions0[j])})

\* C17: starting from untagged input, the k-th terminal expense in input
\* order receives "clr-" and k - 1 written with six digits, so the ids
\* grow with the seeding order, and the id a new chain takes is carried by
\* no transaction tagged before.
C17_LinkIdsCountUp ==
    /\ []((UntaggedInput /\ clr_pc \in {"scan", "walk", "done"}) =>
            \A i \in 1..Len(transactions) :
                (TerminalExpense(transactions0[i]) /\ SeedingPassed(i)) =>
                    transactions[i].link = ExpectedLinkId(TerminalRank(i)))
    /\ [][(UntaggedInput /\ clr_pc = "scan" /\ clr_pc' = "walk") =>
            \A i \in 1..Len(transactions) :
                transactions[i].link # transactions'[scan_i].link]_vars

\* an untagged input gave two chains: the first terminal expense and its
\* bridge carry clr-000000, the second terminal expense clr-000001
C17_Witness ==
    /\ clr_pc = "done"
    /\ UntaggedInput
    /\ \E i, j, b \in 1..Len(transactions) :
          /\ i < j
          /\ TerminalExpense(transactions[i]) /\ TerminalExpense(transactions[j])
          /\ transactions[i].link = "clr-000000"
          /\ transactions[j].link = "clr-000001"
          /\ ~TerminalExpense(transactions[b])
          /\ transactions[b].link = "clr-000000"

\* the walk is on the first iteration of the chain of a seed
FirstIteration == clr_pc = "walk" /\ linked_count = 0

\* the untagged transactions whose counter_account is the source_account
\* of the current transaction, in list order
UntaggedCandidates ==
    SelectSeq([i \in 1..Len(transactions) |-> i],
              LAMBDA i : /\ ~Truthy(transactions[i].link)
                         /\ transactions[i].counter_account
                               = transactions[current].source_account)

\* C21 as stated: unmatched_terminal counts the seeded terminal expenses
\* for which the first iteration of the walk found no untagged candidate
\* whose counter_account is the seed's source_account, and nothing else.
C21_Original_UnmatchedCountsNoCandidate ==
    [][IF FirstIteration /\ UntaggedCandidates = <<>>
       THEN unmatched_terminal' = unmatched_terminal + 1
       ELSE unmatched_terminal' = unmatched_terminal]_vars

\* the first iteration of the walk tags nothing: there is no candidate,
\* the seed's importer is not in importer_map, or the matcher takes none
FirstIterationFails ==
    \/ UntaggedCandidates = <<>>
    \/ importer_map[current] = NONE
    \/ match_clearing(transactions, current, UntaggedCandidates) = 0

\* the terminal expenses of the input that the run seeds
SeededTerminals ==
    {i \in 1..Len(transactions0) :
        TerminalExpense(transactions0[i]) /\ ~Truthy(transactions0[i].link)}

\* the transactions the run tagged with the link of seed i, the seed apart
UpstreamOf(i) ==
    {j \in 1..Len(transactions) \ {i} :
        /\ ~Truthy(transactions0[j].link)
        /\ transactions[j].link = transactions[i].link}

\* C21: unmatched_terminal counts the seeded terminal expenses whose walk
\* tagged no upstream transaction: on the first iteration there was no
\* untagged candidate, or the seed's importer was unknown, or the matcher
\* took none of the candidates.
C21_UnmatchedCountsNoUpstreamHop ==
    /\ [][IF FirstIteration /\ FirstIterationFails
          THEN unmatched_terminal' = unmatched_terminal + 1
          ELSE unmatched_terminal' = unmatched_terminal]_vars
    /\ [](clr_pc = "done" =>
            unmatched_terminal =
                Cardinality({i \in SeededTerminals : UpstreamOf(i) = {}}))

\* a seed had an untagged candidate that the matcher did not take and is
\* counted as unmatched; the candidate is still untagged
C21_Witness ==
    /\ clr_pc = "done"
    /\ unmatched_terminal = 1
    /\ \E i \in SeededTerminals : \E j \in 1..Len(transactions) :
          /\ importer_map[i] # NONE
          /\ UpstreamOf(i) = {}
          /\ transactions[j].counter_account = transactions[i].source_account
          /\ ~Truthy(transactions[j].link)

\* the transactions that carry the link id
CarriersOf(id) == {i \in 1..Len(transactions) : transactions[i].link = id}

\* the orderings of a set of positions
OrderingsOf(S) ==
    {o \in [1..Cardinality(S) -> S] :
        \A a, b \in 1..Cardinality(S) : a # b => o[a] # o[b]}

\* o starts at a terminal expense the run seeded, and every next
\* transaction pays into the clearing account the one before draws from
IsChainPath(o) ==
    /\ Len(o) >= 1
    /\ o[1] \in SeededTerminals
    /\ \A x \in 1..(Len(o) - 1) :
          /\ StartsWith(transactions[o[x]].source_account, "Assets:Clearing:")
          /\ transactions[o[x + 1]].counter_account = transactions[o[x]].source_account

\* C28: after the run the transactions that carry the link id of a chain
\* form a path t0, ..., tk from the seeding terminal expense, with
\* counter_account(t_{i+1}) = source_account(t_i) and source_account(t_i)
\* a clearing account for i < k, and total_linked is the number of
\* transactions the run tagged.
C28_LinkedTransactionsFormPath ==
    clr_pc = "done" =>
        /\ \A id \in ChainIds : \E o \in OrderingsOf(CarriersOf(id)) : IsChainPath(o)
        /\ total_linked = Cardinality({i \in 1..Len(transactions) :
                                          transactions[i].link # transactions0[i].link})

\* C29: the link id a new chain takes is carried by no transaction of the
\* input before the run.
C29_NewLinkIdNotInInput ==
    [][(clr_pc = "scan" /\ clr_pc' = "walk") =>
          \A i \in 1..Len(transactions0) :
              transactions0[i].link # transactions'[scan_i].link]_vars

\* a transaction without its link
WithoutLink(tx) == [tx EXCEPT !.link = NONE]

\* C30: the run changes nothing but links: the list keeps its length and
\* its order, and every transaction keeps its amount, currency, date,
\* source_account, counter_account, reference_id and counterpart_ref (and
\* every other field but the link), also when a chain ends without an
\* upstream match.
C30_OnlyLinksChange ==
    /\ [](clr_pc # "call" =>
            /\ Len(transactions) = Len(transactions0)
            /\ \A i \in 1..Len(transactions) :
                  WithoutLink(transactions[i]) = WithoutLink(transactions0[i]))
    /\ [][clr_pc # "call" =>
            /\ Len(transactions') = Len(transactions)
            /\ \A i \in 1..Len(transactions) :
                  WithoutLink(transactions'[i]) = WithoutLink(transactions[i])]_vars

\* the run is over: one chain took a bridge, another ended at its seed
\* without an upstream match, and both seeds and the bridge have new links
C30_Witness ==
    /\ clr_pc = "done"
    /\ unmatched_terminal = 1
    /\ \E i, j \in SeededTerminals : \E b \in 1..Len(transactions) :
          /\ UpstreamOf(i) = {}
          /\ UpstreamOf(j) = {b}
          /\ transactions[i].link # transactions0[i].link
          /\ transactions[j].link # transactions0[j].link
          /\ transactions[b].link # transactions0[b].link

-----------------------------------------------------------------------------
(***************************************************************************)
(* _amounts_match and match_clearing on a pair of transactions (A, B),    *)
(* each called in both orders: _amounts_match(A, B), _amounts_match(B, A),*)
(* match_clearing(A, [B]) and match_clearing(B, [A]).                      *)
(***************************************************************************)

PairTx(cur, amt, day, fa, fc, ref, cref) ==
    [ClrTx(CMB, JD, "expense", ref, cref, amt, day, NONE)
        EXCEPT !.currency = cur, !.foreign_amount = fa, !.foreign_currency = fc]

\* same-currency records of equal, opposite and different amounts, records
\* with the foreign amount of a WeChat HK payment written with two, one
\* and no decimals, with half of the metadata missing, out of the date
\* window, and records that share a reference
PairTemplates ==
    {PairTx("CNY", -10000, 0, NONE, NONE, NONE, NONE),
     PairTx("CNY", 10000, 2, NONE, NONE, NONE, NONE),
     PairTx("CNY", -9900, 0, NONE, NONE, NONE, NONE),
     PairTx("CNY", -10000, 4, NONE, NONE, NONE, NONE),
     PairTx("HKD", -10800, 0, "100.00", "CNY", NONE, NONE),
     PairTx("HKD", -10800, 5, "100.00", "CNY", NONE, NONE),
     PairTx("HKD", -10800, 1, "100", "CNY", NONE, NONE),
     PairTx("HKD", -10700, 1, "99.0", "CNY", NONE, NONE),
     PairTx("HKD", -10800, 0, "100.00", NONE, NONE, NONE),
     PairTx("HKD", -10800, 0, "", "CNY", NONE, NONE),
     PairTx("CNY", -10000, 0, "108.00", "HKD", NONE, NONE),
     PairTx("CNY", -25000, 9, NONE, NONE, "R1", NONE),
     PairTx("HKD", -3000, 0, NONE, NONE, "", "R1")}

InitPair ==
    /\ pair_txs \in {<<a, b>> : a \in PairTemplates, b \in PairTemplates}
    /\ am_ab = FALSE /\ am_ba = FALSE
    /\ mc_ab = 0 /\ mc_ba = 0
    /\ pair_pc = "call"
    /\ PairOthersIdle

\* _amounts_match(A, B) and _amounts_match(B, A)
CallAmountsMatch ==
    /\ pair_pc = "call"
    /\ am_ab' = amounts_match(pair_txs[1], pair_txs[2])
    /\ am_ba' = amounts_match(pair_txs[2], pair_txs[1])
    /\ pair_pc' = "matched"
    /\ UNCHANGED <<pair_txs, mc_ab, mc_ba>>
    /\ UNCHANGED pairOthers

\* match_clearing(A, [B]) and match_clearing(B, [A]): the position of the
\* returned transaction in pair_txs, 0 for None
CallMatchClearing ==
    /\ pair_pc = "matched"
    /\ mc_ab' = match_clearing(pair_txs, 1, <<2>>)
    /\ mc_ba' = match_clearing(pair_txs, 2, <<1>>)
    /\ pair_pc' = "done"
    /\ UNCHANGED <<pair_txs, am_ab, am_ba>>
    /\ UNCHANGED pairOthers

NextPair == CallAmountsMatch \/ CallMatchClearing

SpecPair == InitPair /\ [][NextPair]_vars

\* A's foreign amount and currency metadata equal B's native absolute
\* amount and currency
ForeignEqualsNative(A, B) ==
    /\ A.foreign_amount \notin {NONE, ""}
    /\ A.foreign_currency = B.currency
    /\ DecimalCents(A.foreign_amount) = Abs(B.amount)

\* C11: _amounts_match(A, B) = _amounts_match(B, A); when A's foreign
\* amount and currency equal B's native absolute amount and currency both
\* calls return True; and match_clearing(A, [B]) returns B exactly when
\* match_clearing(B, [A]) returns A.
C11_AmountsMatchSymmetric ==
    /\ pair_pc \in {"matched", "done"} =>
          /\ am_ab = am_ba
          /\ ForeignEqualsNative(pair_txs[1], pair_txs[2]) => (am_ab /\ am_ba)
          /\ ForeignEqualsNative(pair_txs[2], pair_txs[1]) => (am_ab /\ am_ba)
    /\ pair_pc = "done" =>
          /\ mc_ab \in {0, 2} /\ mc_ba \in {0, 1}
          /\ (mc_ab = 2) <=> (mc_ba = 1)

\* A is a HKD record whose foreign amount is B's CNY amount; the
\* currencies differ, A and B share no reference, and each was returned
\* as the match of the other
C11_Witness ==
    /\ pair_pc = "done"
    /\ pair_txs[1].currency # pair_txs[2].currency
    /\ ForeignEqualsNative(pair_txs[1], pair_txs[2])
    /\ ~ForeignEqualsNative(pair_txs[2], pair_txs[1])
    /\ RefSet(pair_txs[1]) \cap RefSet(pair_txs[2]) = {}
    /\ am_ab /\ am_ba
    /\ mc_ab = 2 /\ mc_ba = 1

-----------------------------------------------------------------------------
(***************************************************************************)
(* The default match_clearing (importers/base.py) called on a seed and a  *)
(* list of candidates in any order: mcl_txs holds the seed first and the  *)
(* candidates behind it, in list order.                                    *)
(***************************************************************************)

MaxCands == 3

\* seeds and candidates: shared and empty references, equal and different
\* amounts, dates up to four days from day 3 and one far away, and an
\* amount in another currency
MclTemplates ==
    {ClrTx(JD, NONE, "expense", "ORDER001", NONE, -10000, 3, NONE),
     ClrTx(JD, NONE, "expense", "", "", -10000, 3, NONE),
     ClrTx(CMB, JD, "expense", NONE, "ORDER001", -99900, 20, NONE),
     ClrTx(CMB, JD, "expense", "", NONE, -10000, 2, NONE),
     ClrTx(CMB, JD, "expense", NONE, NONE, -10000, 4, NONE),
     ClrTx(CMB, JD, "expense", NONE, NONE, -10000, 6, NONE),
     ClrTx(CMB, JD, "expense", NONE, NONE, -10000, 7, NONE),
     ClrTx(CMB, JD, "expense", NONE, "", -25000, 3, NONE),
     [ClrTx(CMB, JD, "expense", NONE, NONE, -10800, 5, NONE)
         EXCEPT !.currency = "HKD", !.foreign_amount = "100.00",
                !.foreign_currency = "CNY"]}

MclInputs == SeqsUpTo(MclTemplates, MaxCands + 1) \ {<<>>}

InitMatchClearing ==
    /\ mcl_txs \in MclInputs
    /\ mcl_result = 0
    /\ mcl_pc = "call"
    /\ MclOthersIdle

\* importer.match_clearing(seed_tx, candidates); None is 0
MatchClearing ==
    /\ mcl_pc = "call"
    /\ mcl_result' = match_clearing(mcl_txs, 1, [k \in 1..(Len(mcl_txs) - 1) |-> k + 1])
    /\ mcl_pc' = "done"
    /\ UNCHANGED mcl_txs
    /\ UNCHANGED mclOthers

NextMatchClearing == MatchClearing

SpecMatchClearing == InitMatchClearing /\ [][NextMatchClearing]_vars

\* the candidates that share a non-empty reference_id or counterpart_ref
\* value with the seed
SharingCandidates ==
    {c \in 2..Len(mcl_txs) :
        ({mcl_txs[1].reference_id, mcl_txs[1].counterpart_ref}
            \cap {mcl_txs[c].reference_id, mcl_txs[c].counterpart_ref})
          \ {NONE, ""} # {}}

\* the amounts of a and b match, in one currency or across currencies
AmountsAgree(a, b) ==
    \/ a.currency = b.currency /\ Abs(a.amount) = Abs(b.amount)
    \/ ForeignEqualsNative(a, b)
    \/ ForeignEqualsNative(b, a)

\* the candidates dated at most three days from the seed whose amount matches
FittingCandidates ==
    {c \in 2..Len(mcl_txs) :
        /\ mcl_txs[c].date - mcl_txs[1].date \in -3..3
        /\ AmountsAgree(mcl_txs[1], mcl_txs[c])}

\* C22: match_clearing returns at most one candidate: the first candidate
\* in list order that shares a non-empty reference with the seed, whatever
\* its amount and date; without such a candidate the nearest in time among
\* those within three days whose amount matches, the first in list order
\* among equally near ones; and None without any of these.
C22_MatchClearingChoice ==
    mcl_pc = "done" =>
        /\ mcl_result \in {0} \cup 2..Len(mcl_txs)
        /\ IF SharingCandidates # {}
           THEN /\ mcl_result \in SharingCandidates
                /\ \A c \in SharingCandidates : mcl_result <= c
           ELSE IF FittingCandidates # {}
           THEN /\ mcl_result \in FittingCandidates
                /\ \A c \in FittingCandidates :
                      LET dr == Abs(mcl_txs[mcl_result].date - mcl_txs[1].date)
                          dc == Abs(mcl_txs[c].date - mcl_txs[1].date)
                      IN  dr < dc \/ (dr = dc /\ mcl_result <= c)
           ELSE mcl_result = 0

\* the candidate that shares ORDER001 with the seed is returned although
\* its amount differs and it is dated seventeen days later, and although
\* a candidate that fits by amount and date stands before it
C22_Witness ==
    /\ mcl_pc = "done"
    /\ Len(mcl_txs) = 3
    /\ mcl_result = 3
    /\ 3 \in SharingCandidates
    /\ 2 \in FittingCandidates
    /\ Abs(mcl_txs[3].amount) # Abs(mcl_txs[1].amount)
    /\ Abs(mcl_txs[3].date - mcl_txs[1].date) > 3

-----------------------------------------------------------------------------
(***************************************************************************)
(* Cross-platform resolver: _resolve_cross_platform with                   *)
(* _resolve_single_tx, _find_matching_tx and _get_source_keywords          *)
(* (cli.py), is_platform_account and the platform tables                   *)
(* (importers/resolve.py).  An importer is named by its class; its id is   *)
(* its position in importer_map.  One action per iteration of the two for  *)
(* loops and per iteration of the while loop.  The keywords written in     *)
(* Chinese stand here in Latin transcription.                              *)
(***************************************************************************)

MaxResTxs == 3

PLATFORM_ACCOUNT_PREFIXES == {"Assets:WeChat", "Assets:Alipay", "Assets:JD"}

PLATFORM_KEYWORDS ==
    [p \in PLATFORM_ACCOUNT_PREFIXES |->
        CASE p = "Assets:JD"     -> <<"Jingdong", "JD", "jd.com">>
          [] p = "Assets:Alipay" -> <<"Zhifubao", "Alipay">>
          [] p = "Assets:WeChat" -> <<"Weixin", "Caifutong", "WeChat", "Tenpay">>]

\* every account under Assets: taken for a platform account
is_platform_account_any_asset(account) == StartsWith(account, "Assets:")

is_platform_account(account) == account \in PLATFORM_ACCOUNT_PREFIXES

\* importer.account_name() with the default account of each class
account_name(importer) ==
    CASE importer = "JdImporter"     -> "Assets:JD"
      [] importer = "WechatImporter" -> "Assets:WeChat"
      [] importer = "AlipayImporter" -> "Assets:Alipay"
      [] importer = "AldiImporter"   -> "Assets:Clearing:ALDI"

\* name.removesuffix("Importer")
RemoveSuffix(name, suffix) ==
    IF Len(name) >= Len(suffix)
         /\ SubSeq(name, Len(name) - Len(suffix) + 1, Len(name)) = suffix
    THEN SubSeq(name, 1, Len(name) - Len(suffix))
    ELSE name

\* the platform of lines 275-279 for an account, or NONE
PlatformOf(account) ==
    LET hits == {prefix \in PLATFORM_ACCOUNT_PREFIXES : StartsWith(account, prefix)}
    IN  IF hits = {} THEN NONE ELSE CHOOSE prefix \in hits : TRUE

\* imp_id_to_platform.get(imp_id)
imp_id_to_platform(imps, imp_id) == PlatformOf(account_name(imps[imp_id]))

\* platform_to_imp_id.get(platform): the last importer of the platform, or 0
platform_to_imp_id(imps, platform) ==
    LET ids == {k \in 1..Len(imps) : imp_id_to_platform(imps, k) = platform}
    IN  IF ids = {} THEN 0 ELSE CHOOSE k \in ids : \A j \in ids : j <= k

get_source_keywords(importer) ==
    LET platform == PlatformOf(account_name(importer))
    IN  IF platform # NONE THEN PLATFORM_KEYWORDS[platform]
        ELSE <<RemoveSuffix(importer, "Importer")>>

\* kw in text
Contains(text, kw) ==
    \E k \in 1..(Len(text) - Len(kw) + 1) : SubSeq(text, k, k + Len(kw) - 1) = kw

\* f"{candidate.payee or ''} {candidate.narration or ''}"
CandidateText(candidate) ==
    (IF Truthy(candidate.payee) THEN candidate.payee ELSE "") \o " "
        \o (IF Truthy(candidate.narration) THEN candidate.narration ELSE "")

\* the position in pool of the first match, or 0
find_matching_tx(tx, pool, keywords) ==
    LET hits == {i \in 1..Len(pool) :
                    /\ Abs(pool[i].amount) = Abs(tx.amount)
                    /\ Abs(tx.date - pool[i].date) <= 1
                    /\ \E k \in 1..Len(keywords) :
                          Contains(CandidateText(pool[i]), keywords[k])}
    IN  IF hits = {} THEN 0 ELSE CHOOSE i \in hits : \A h \in hits : i <= h

\* pool.pop(0) whatever idx is
PopHead(pool, idx) == Tail(pool)

\* pool.pop(idx)
Pop(pool, idx) == SubSeq(pool, 1, idx - 1) \o SubSeq(pool, idx + 1, Len(pool))

ResTx(ref, amt, day, payee, src, pm) ==
    [reference_id |-> ref, amount |-> amt, date |-> day, payee |-> payee,
     narration |-> "", source_account |-> src, payment_method |-> pm]

\* the records the importers extracted: orders paid through another
\* platform, and the other platform's records of such payments, funded by
\* a card, by the platform's own balance or by a third platform
ResEntries ==
    {[importer |-> "JdImporter", tx |-> t] : t \in {
        ResTx("JD1", -5000, 1, "Shop", "Assets:WeChat", "WeChat Pay"),
        ResTx("JD2", -5000, 1, "Shop", "Assets:Alipay", "Alipay"),
        ResTx("JD3", -5000, 1, "Weixin top-up", "Assets:JD", "JD balance"),
        ResTx("JD4", -5000, 1, "Shop", "Liabilities:CreditCard:CMB", "CMB card")}}
    \cup {[importer |-> "WechatImporter", tx |-> t] : t \in {
        ResTx("WX1", -5000, 1, "JD.COM", "Assets:WeChat", "Balance"),
        ResTx("WX2", -5000, 2, "Jingdong mall", "Assets:Alipay", "Alipay"),
        ResTx("WX3", 5000, 1, "jd.com order", "Assets:JD", "JD Pay"),
        ResTx("WX4", -5000, 1, "JD.COM", "Liabilities:CreditCard:CMB", "CMB card"),
        ResTx("WX5", -5000, 3, "JD.COM", "Liabilities:CreditCard:CMB", "CMB card"),
        ResTx("WX6", -5000, 1, "Grocer", "Liabilities:CreditCard:CMB", "CMB card")}}
    \cup {[importer |-> "AlipayImporter", tx |-> t] : t \in {
        ResTx("ALI1", -5000, 1, "Tenpay", "Assets:WeChat", "WeChat Pay"),
        ResTx("ALI2", -5000, 1, "WeChat transfer", "Assets:Bank:CMB", "CMB debit"),
        ResTx("ALI3", -5000, 1, "Jingdong", "Assets:Bank:CMB", "CMB debit"),
        ResTx("ALI4", -7000, 1, "JD", "Assets:Bank:CMB", "CMB debit")}}
    \cup {[importer |-> "AldiImporter",
           tx |-> ResTx("ALDI1", -5000, 1, "Aldi", "Assets:WeChat", "WeChat Pay")]}

ResInputs == SeqsUpTo(ResEntries, MaxResTxs)

\* the importers of an input in the order of their first record: the
\* insertion order of importer_map and all_txns_by_importer
ImportersOf(inp) ==
    LET firsts == {k \in 1..Len(inp) : \A j \in 1..(k - 1) : inp[j].importer # inp[k].importer}
    IN  [r \in 1..Cardinality(firsts) |->
            inp[CHOOSE k \in firsts : Cardinality({j \in firsts : j < k}) = r - 1].importer]

\* the records of one importer, in input order
PoolOf(inp, importer) ==
    LET mine == SelectSeq(inp, LAMBDA e : e.importer = importer)
    IN  [k \in 1..Len(mine) |-> mine[k].tx]

InitResolve ==
    /\ importers = <<>>
    /\ all_txns_by_importer = <<>>
    /\ warnings = <<>>
    /\ res_pc = "call"
    /\ imp_pos = 0
    /\ tx_pos = 0
    /\ visited = {}
    /\ current_target = NONE
    /\ resolved = FALSE
    /\ current_keywords = <<>>
    /\ outcome = NoOutcome
    /\ ResOthersIdle


\* the transaction the inner for loop stands on
LoopTx == all_txns_by_importer[imp_pos][tx_pos]

\* the call _resolve_cross_platform(all_txns_by_importer, importer_map),
\* lines 268-279
ResolveCall ==
    /\ res_pc = "call"
    /\ \E inp \in ResInputs :
          /\ importers' = ImportersOf(inp)
          /\ all_txns_by_importer' =
                [k \in 1..Len(ImportersOf(inp)) |-> PoolOf(inp, ImportersOf(inp)[k])]
    /\ warnings' = <<>>
    /\ res_pc' = "for"
    /\ imp_pos' = 1
    /\ tx_pos' = 1
    /\ UNCHANGED <<visited, current_target, resolved, current_keywords, outcome>>
    /\ UNCHANGED resOthers

\* outer for loop, line 282: the importer's transactions are through
NextImporter ==
    /\ res_pc = "for"
    /\ imp_pos <= Len(importers)
    /\ tx_pos > Len(all_txns_by_importer[imp_pos])
    /\ imp_pos' = imp_pos + 1
    /\ tx_pos' = 1
    /\ UNCHANGED <<importers, all_txns_by_importer, warnings, res_pc, visited,
                   current_target, resolved, current_keywords, outcome>>
    /\ UNCHANGED resOthers

\* inner for loop, lines 285-291: not a platform account, or the
\* importer's own platform
SkipTx ==
    /\ res_pc = "for"
    /\ imp_pos <= Len(importers)
    /\ tx_pos <= Len(all_txns_by_importer[imp_pos])
    /\ \/ ~is_platform_account(LoopTx.source_account)
       \/ LoopTx.source_account = imp_id_to_platform(importers, imp_pos)
    /\ tx_pos' = tx_pos + 1
    /\ UNCHANGED <<importers, all_txns_by_importer, warnings, res_pc, imp_pos, visited,
                   current_target, resolved, current_keywords, outcome>>
    /\ UNCHANGED resOthers

\* lines 293-302: the transaction points to another platform
BeginResolve ==
    /\ res_pc = "for"
    /\ imp_pos <= Len(importers)
    /\ tx_pos <= Len(all_txns_by_importer[imp_pos])
    /\ is_platform_account(LoopTx.source_account)
    /\ LoopTx.source_account # imp_id_to_platform(importers, imp_pos)
    /\ visited' = IF imp_id_to_platform(importers, imp_pos) # NONE
                  THEN {imp_id_to_platform(importers, imp_pos)} ELSE {}
    /\ current_target' = LoopTx.source_account
    /\ resolved' = FALSE
    /\ current_keywords' = get_source_keywords(importers[imp_pos])
    /\ res_pc' = "while"
    /\ UNCHANGED <<importers, all_txns_by_importer, warnings, imp_pos, tx_pos, outcome>>
    /\ UNCHANGED resOthers

\* while loop, lines 304-328: one call of _resolve_single_tx (lines 229-243)
Hop ==
    /\ res_pc = "while"
    /\ is_platform_account(current_target)
    /\ current_target \notin visited
    /\ visited' = visited \cup {current_target}
    /\ LET target_imp_id == platform_to_imp_id(importers, current_target)
           idx == IF target_imp_id = 0 THEN 0
                  ELSE find_matching_tx(LoopTx, all_txns_by_importer[target_imp_id],
                                        current_keywords)
       IN  IF idx # 0
           THEN LET shadow == all_txns_by_importer[target_imp_id][idx]
                IN  /\ all_txns_by_importer' =
                          [k \in 1..Len(importers) |->
                              IF k = imp_pos
                              THEN [all_txns_by_importer[k] EXCEPT
                                       ![tx_pos].source_account = shadow.source_account,
                                       ![tx_pos].payment_method = shadow.payment_method]
                              ELSE IF k = target_imp_id
                                   THEN Pop(all_txns_by_importer[k], idx)
                                   ELSE all_txns_by_importer[k]]
                    /\ current_target' = shadow.source_account
                    /\ IF ~is_platform_account(shadow.source_account)
                       THEN /\ resolved' = TRUE
                            /\ res_pc' = "fallback"
                            /\ UNCHANGED current_keywords
                       ELSE /\ current_keywords' = PLATFORM_KEYWORDS[current_target]
                            /\ UNCHANGED <<resolved, res_pc>>
           ELSE /\ res_pc' = "fallback"
                /\ UNCHANGED <<all_txns_by_importer, current_target, resolved,
                               current_keywords>>
    /\ outcome' = [outcome EXCEPT !.revisit = FALSE]
    /\ UNCHANGED <<importers, warnings, imp_pos, tx_pos>>
    /\ UNCHANGED resOthers

\* while loop, line 304: the target is a platform that was visited before
LoopExit ==
    /\ res_pc = "while"
    /\ ~(is_platform_account(current_target) /\ current_target \notin visited)
    /\ res_pc' = "fallback"
    /\ outcome' = [outcome EXCEPT !.revisit =
                      is_platform_account(current_target) /\ current_target \in visited]
    /\ UNCHANGED <<importers, all_txns_by_importer, warnings, imp_pos, tx_pos, visited,
                   current_target, resolved, current_keywords>>
    /\ UNCHANGED resOthers

\* Fallback without the branch of lines 333-334
FallbackOwnPlatformOnly ==
    /\ res_pc = "fallback"
    /\ LET own_platform == imp_id_to_platform(importers, imp_pos)
           account      == LoopTx.source_account
           unknown      == /\ ~resolved
                           /\ is_platform_account(account)
                           /\ account = own_platform /\ Cardinality(visited) > 1
           warn         == unknown /\ account = own_platform
       IN  /\ all_txns_by_importer' =
                 IF unknown
                 THEN [all_txns_by_importer EXCEPT
                          ![imp_pos][tx_pos].source_account = account \o ":Unknown"]
                 ELSE all_txns_by_importer
           /\ warnings' =
                 IF warn
                 THEN Append(warnings, [reference_id |-> LoopTx.reference_id,
                                        visited |-> visited])
                 ELSE warnings
           /\ outcome' = [reference_id |-> LoopTx.reference_id,
                          revisit |-> outcome.revisit,
                          reached |-> account,
                          source_account |-> IF unknown THEN account \o ":Unknown"
                                             ELSE account,
                          warned |-> IF warn THEN 1 ELSE 0]
    /\ tx_pos' = tx_pos + 1
    /\ res_pc' = "for"
    /\ UNCHANGED <<importers, imp_pos, visited, current_target, resolved, current_keywords>>
    /\ UNCHANGED resOthers

\* lines 330-339, then the next transaction of the inner for loop
Fallback ==
    /\ res_pc = "fallback"
    /\ LET own_platform == imp_id_to_platform(importers, imp_pos)
           account      == LoopTx.source_account
           unknown      == /\ ~resolved
                           /\ is_platform_account(account)
                           /\ (account # own_platform \/ Cardinality(visited) > 1)
           warn         == unknown /\ account = own_platform
       IN  /\ all_txns_by_importer' =
                 IF unknown
                 THEN [all_txns_by_importer EXCEPT
                          ![imp_pos][tx_pos].source_account = account \o ":Unknown"]
                 ELSE all_txns_by_importer
           /\ warnings' =
                 IF warn
                 THEN Append(warnings, [reference_id |-> LoopTx.reference_id,
                                        visited |-> visited])
                 ELSE warnings
           /\ outcome' = [reference_id |-> LoopTx.reference_id,
                          revisit |-> outcome.revisit,
                          reached |-> account,
                          source_account |-> IF unknown THEN account \o ":Unknown"
                                             ELSE account,
                          warned |-> IF warn THEN 1 ELSE 0]
    /\ tx_pos' = tx_pos + 1
    /\ res_pc' = "for"
    /\ UNCHANGED <<importers, imp_pos, visited, current_target, resolved, current_keywords>>
    /\ UNCHANGED resOthers

\* line 341: return warnings
ResolveReturn ==
    /\ res_pc = "for"
    /\ imp_pos > Len(importers)
    /\ res_pc' = "done"
    /\ UNCHANGED <<importers, all_txns_by_importer, warnings, imp_pos, tx_pos, visited,
                   current_target, resolved, current_keywords, outcome>>
    /\ UNCHANGED resOthers

NextResolve ==
    ResolveCall \/ NextImporter \/ SkipTx \/ BeginResolve \/ Hop \/ LoopExit
        \/ Fallback \/ ResolveReturn

SpecResolve == InitResolve /\ [][NextResolve]_vars

\* the positions of a pool that a shadow of tx may stand on: equal
\* absolute amount, dates at most one day apart, a keyword in payee or
\* narration
ShadowPositions(tx, pool, keywords) ==
    {i \in 1..Len(pool) :
        /\ Abs(pool[i].amount) = Abs(tx.amount)
        /\ pool[i].date - tx.date \in {-1, 0, 1}
        /\ \E kw \in Range(keywords) :
              Contains(pool[i].payee, kw) \/ Contains(pool[i].narration, kw)}

\* the while loop is about to look for a shadow in the pool of importer t,
\* the importer of the target platform, and there is one
ShadowFound(t) ==
    /\ res_pc = "while"
    /\ is_platform_account(current_target)
    /\ current_target \notin visited
    /\ imp_id_to_platform(importers, t) = current_target
    /\ ShadowPositions(LoopTx, all_txns_by_importer[t], current_keywords) # {}

\* C14: when a shadow is found in the target platform's pool, the
\* transaction takes over source_account and payment_method of the first
\* shadow in pool order, exactly that element is removed from the pool,
\* the other elements keep their order, and nothing else changes.
C14_ShadowTakenAndRemoved ==
    [][\A t \in 1..Len(importers) :
          ShadowFound(t) =>
            LET pool   == all_txns_by_importer[t]
                hits   == ShadowPositions(LoopTx, pool, current_keywords)
                i      == CHOOSE h \in hits : \A g \in hits : h <= g
                shadow == pool[i]
            IN  /\ all_txns_by_importer'[imp_pos][tx_pos] =
                      [LoopTx EXCEPT !.source_account = shadow.source_account,
                                     !.payment_method = shadow.payment_method]
                /\ Len(all_txns_by_importer'[t]) = Len(pool) - 1
                /\ \A j \in 1..(Len(pool) - 1) :
                      all_txns_by_importer'[t][j] = IF j < i THEN pool[j] ELSE pool[j + 1]
                /\ \A k \in 1..Len(importers) :
                      /\ k \notin {t, imp_pos} =>
                            all_txns_by_importer'[k] = all_txns_by_importer[k]
                      /\ k = imp_pos =>
                            /\ Len(all_txns_by_importer'[k]) = Len(all_txns_by_importer[k])
                            /\ \A j \in 1..Len(all_txns_by_importer[k]) :
                                  j # tx_pos =>
                                     all_txns_by_importer'[k][j] = all_txns_by_importer[k][j]
      ]_vars

\* the JD order paid through WeChat has taken the card of its WeChat
\* shadow; the shadow stood behind a WeChat record that does not match
\* and is gone, the other record is still in the pool
C14_Witness ==
    /\ res_pc = "fallback"
    /\ resolved
    /\ importers = <<"JdImporter", "WechatImporter">>
    /\ LoopTx.reference_id = "JD1"
    /\ LoopTx.source_account = "Liabilities:CreditCard:CMB"
    /\ LoopTx.payment_method = "CMB card"
    /\ Len(all_txns_by_importer[2]) = 1
    /\ all_txns_by_importer[2][1].reference_id = "WX6"

\* the record as the importer extracted it: the records of ResEntries
\* have reference ids of their own
Extracted(tx) == CHOOSE e \in ResEntries : e.tx.reference_id = tx.reference_id

EndsWith(str, suffix) ==
    /\ Len(str) >= Len(suffix)
    /\ SubSeq(str, Len(str) - Len(suffix) + 1, Len(str)) = suffix

\* the transaction on position j of importer k was extracted with a bare
\* platform account that is not the platform of its importer
StartedOnOtherPlatform(k, j) ==
    LET was == Extracted(all_txns_by_importer[k][j]).tx.source_account
    IN  /\ was \in {"Assets:WeChat", "Assets:Alipay", "Assets:JD"}
        /\ was # imp_id_to_platform(importers, k)

\* another importer extracted a record with this account and payment method
HeldByShadow(k, tx) ==
    \E e \in ResEntries :
        /\ e.importer # importers[k]
        /\ e.tx.source_account = tx.source_account
        /\ e.tx.payment_method = tx.payment_method

\* C15: after the return no transaction that started with a bare platform
\* account other than its importer's platform has a bare platform
\* account: its source_account is a non-platform account inherited from a
\* shadow, or it ends in ":Unknown".
C15_NoBarePlatformLeft ==
    res_pc = "done" =>
        \A k \in 1..Len(importers) : \A j \in 1..Len(all_txns_by_importer[k]) :
            StartedOnOtherPlatform(k, j) =>
                LET tx == all_txns_by_importer[k][j]
                IN  /\ tx.source_account \notin {"Assets:WeChat", "Assets:Alipay", "Assets:JD"}
                    /\ \/ EndsWith(tx.source_account, ":Unknown")
                       \/ HeldByShadow(k, tx)

\* the call returned with three orders that started on another platform:
\* one inherited a card from its shadow, one found no shadow, and the
\* platform of the third has no importer
C15_Witness ==
    /\ res_pc = "done"
    /\ \E k \in 1..Len(importers) : \E j \in 1..Len(all_txns_by_importer[k]) :
          /\ StartedOnOtherPlatform(k, j)
          /\ ~EndsWith(all_txns_by_importer[k][j].source_account, ":Unknown")
          /\ HeldByShadow(k, all_txns_by_importer[k][j])
    /\ \E k \in 1..Len(importers) : \E j \in 1..Len(all_txns_by_importer[k]) :
          /\ StartedOnOtherPlatform(k, j)
          /\ EndsWith(all_txns_by_importer[k][j].source_account, ":Unknown")

\* an account that the resolver has to leave alone on a transaction of
\* importer k: not a bare platform account, or the importer's own platform
LeftAlone(k, account) ==
    \/ account \notin {"Assets:WeChat", "Assets:Alipay", "Assets:JD"}
    \/ account = imp_id_to_platform(importers, k)

\* the for loop stands on a transaction that has to be left alone
OnLeftAlone ==
    /\ res_pc = "for"
    /\ imp_pos <= Len(importers)
    /\ tx_pos <= Len(all_txns_by_importer[imp_pos])
    /\ LeftAlone(imp_pos, LoopTx.source_account)

\* C19: a transaction whose source_account is not a bare platform account
\* or is the platform of its own importer keeps its source_account and
\* payment_method, and the step of the loop that handles it removes no
\* shadow from any pool.
C19_OthersLeftUnchanged ==
    /\ [](res_pc # "call" =>
            \A k \in 1..Len(importers) : \A j \in 1..Len(all_txns_by_importer[k]) :
                LET tx  == all_txns_by_importer[k][j]
                    was == Extracted(tx).tx
                IN  LeftAlone(k, was.source_account) =>
                        /\ tx.source_account = was.source_account
                        /\ tx.payment_method = was.payment_method)
    /\ [][OnLeftAlone =>
            /\ all_txns_by_importer' = all_txns_by_importer
            /\ warnings' = warnings]_vars

\* after the return an order with the importer's own platform and an order
\* with a card are as they were extracted, next to an order that pointed
\* to another platform and was changed
C19_Witness ==
    /\ res_pc = "done"
    /\ \E k \in 1..Len(importers) : \E i, j, c \in 1..Len(all_txns_by_importer[k]) :
          /\ all_txns_by_importer[k][i].source_account = imp_id_to_platform(importers, k)
          /\ all_txns_by_importer[k][i] = Extracted(all_txns_by_importer[k][i]).tx
          /\ all_txns_by_importer[k][j].source_account = "Liabilities:CreditCard:CMB"
          /\ all_txns_by_importer[k][j] = Extracted(all_txns_by_importer[k][j]).tx
          /\ StartedOnOtherPlatform(k, c)
          /\ all_txns_by_importer[k][c] # Extracted(all_txns_by_importer[k][c]).tx

\* C5: whenever the resolution of a transaction ended because its target
\* was a platform account already visited for it, the transaction is left
\* on the ":Unknown" variant of the account it reached last and exactly
\* one warning was emitted for it.
C5_CycleEndsUnknownWithOneWarning ==
    (res_pc = "for" /\ outcome.revisit)
        => /\ outcome.source_account = outcome.reached \o ":Unknown"
           /\ outcome.warned = 1

-----------------------------------------------------------------------------
(***************************************************************************)
(* Matching engine: MatchingEngine.match and its three phases              *)
(* (matching/engine.py).  A transaction is named by its position in the    *)
(* input list; remaining holds the positions still unmatched, in input     *)
(* order.  A confidence is a fraction [num, den].  Each phase walks its    *)
(* candidate pairs in the order of the code's loops and takes a pair when  *)
(* both sides are still free and the phase's test holds.  The keywords     *)
(* written in Chinese stand here in Latin transcription.                   *)
(***************************************************************************)

MaxMatchTxs == 4

\* date_tolerance_days
date_tolerance_days == 3

\* fuzzy_payee_threshold = 0.7, as a fraction
fuzzy_threshold == [num |-> 7, den |-> 10]

\* a >= b for fractions with positive denominators
FracGeq(a, b) == a.num * b.den >= b.num * a.den

UpperCase == "ABCDEFGHIJKLMNOPQRSTUVWXYZ"
LowerCase == "abcdefghijklmnopqrstuvwxyz"

\* the characters of the texts, in code point order
CodePoints == " .0123456789:" \o UpperCase \o LowerCase

CodePoint(ch) == CHOOSE k \in 1..Len(CodePoints) : SubSeq(CodePoints, k, k) = ch

RECURSIVE Lower(_)
\* str.lower()
Lower(str) ==
    IF Len(str) = 0 THEN ""
    ELSE LET ch == SubSeq(str, 1, 1)
             up == {k \in 1..26 : SubSeq(UpperCase, k, k) = ch}
         IN  (IF up = {} THEN ch
              ELSE LET k == CHOOSE u \in up : TRUE IN SubSeq(LowerCase, k, k))
                \o Lower(SubSeq(str, 2, Len(str)))

\* f"{tx.payee} {tx.narration}"
PayeeText(tx) ==
    (IF tx.payee = NONE THEN "None" ELSE tx.payee) \o " "
        \o (IF tx.narration = NONE THEN "None" ELSE tx.narration)

\* str.split(): the maximal runs of non-blank characters, in order
Tokens(str) ==
    LET starts == {k \in 1..Len(str) :
                      /\ SubSeq(str, k, k) # " "
                      /\ (k = 1 \/ SubSeq(str, k - 1, k - 1) = " ")}
        EndOf(k) == CHOOSE e \in k..Len(str) :
                      /\ \A x \in k..e : SubSeq(str, x, x) # " "
                      /\ (e = Len(str) \/ SubSeq(str, e + 1, e + 1) = " ")
    IN  [r \in 1..Cardinality(starts) |->
            LET k == CHOOSE x \in starts : Cardinality({y \in starts : y < x}) = r - 1
            IN  SubSeq(str, k, EndOf(k))]

\* a < b for strings, by code points
StrLess(a, b) ==
    \E k \in 1..(Len(b)) :
        /\ \A j \in 1..(k - 1) : j <= Len(a) /\ SubSeq(a, j, j) = SubSeq(b, j, j)
        /\ \/ k > Len(a)
           \/ CodePoint(SubSeq(a, k, k)) < CodePoint(SubSeq(b, k, k))

RECURSIVE JoinTokens(_)
\* " ".join(tokens)
JoinTokens(tokens) ==
    IF Len(tokens) = 0 THEN ""
    ELSE IF Len(tokens) = 1 THEN tokens[1]
    ELSE tokens[1] \o " " \o JoinTokens(Tail(tokens))

\* " ".join(sorted(str.split()))
SortedTokens(str) ==
    LET tokens == Tokens(str)
        n      == Len(tokens)
        Rank(k) == 1 + Cardinality({j \in 1..n :
                         \/ StrLess(tokens[j], tokens[k])
                         \/ tokens[j] = tokens[k] /\ j < k})
    IN  JoinTokens([r \in 1..n |-> tokens[CHOOSE k \in 1..n : Rank(k) = r]])

RECURSIVE LcsRow(_, _, _, _, _)
\* row i of the longest-common-subsequence table of a and b, from row
\* i - 1 (prev); acc holds the columns 0..Len(acc)-1 of row i
LcsRow(a, i, b, prev, acc) ==
    IF Len(acc) = Len(b) + 1 THEN acc
    ELSE LET j   == Len(acc)
             val == IF SubSeq(a, i, i) = SubSeq(b, j, j) THEN prev[j] + 1
                    ELSE IF prev[j + 1] >= acc[j] THEN prev[j + 1] ELSE acc[j]
         IN  LcsRow(a, i, b, prev, Append(acc, val))

RECURSIVE LcsFrom(_, _, _, _)
LcsFrom(a, b, i, prev) ==
    IF i > Len(a) THEN prev[Len(b) + 1]
    ELSE LcsFrom(a, b, i + 1, LcsRow(a, i, b, prev, <<0>>))

\* the length of the longest common subsequence of two strings
Lcs(a, b) == LcsFrom(a, b, 1, [j \in 1..(Len(b) + 1) |-> 0])

\* fuzz.token_sort_ratio(a, b) / 100.0: the normalised indel similarity
\* 2 * lcs / (len(a) + len(b)) of the two strings with their tokens sorted
token_sort_ratio(a, b) ==
    LET sa == SortedTokens(a)
        sb == SortedTokens(b)
    IN  IF Len(sa) + Len(sb) = 0 THEN [num |-> 1, den |-> 1]
        ELSE [num |-> 2 * Lcs(sa, sb), den |-> Len(sa) + Len(sb)]

RECURSIVE GreedyFrom(_, _, _, _)
\* the pairs taken from the candidate sequence: a pair is taken when
\* neither side is in matched_indices and it passes the test (is in ok)
GreedyFrom(pairs, ok, k, acc) ==
    IF k > Len(pairs) THEN acc
    ELSE LET matched_indices == {acc[x][1] : x \in 1..Len(acc)}
                                   \cup {acc[x][2] : x \in 1..Len(acc)}
         IN  IF /\ pairs[k][1] \notin matched_indices
                /\ pairs[k][2] \notin matched_indices
                /\ pairs[k] \in ok
             THEN GreedyFrom(pairs, ok, k + 1, Append(acc, pairs[k]))
             ELSE GreedyFrom(pairs, ok, k + 1, acc)

\* the positions of a sequence of pairs
Consumed(pairs) ==
    {pairs[x][1] : x \in 1..Len(pairs)} \cup {pairs[x][2] : x \in 1..Len(pairs)}

\* Unconsumed that drops the first transaction of a pair only
UnconsumedFirstOnly(rem, pairs) ==
    SelectSeq(rem, LAMBDA i : \A k \in 1..Len(pairs) : pairs[k][1] # i)

\* [tx for i, tx in enumerate(transactions) if i not in matched_indices]
Unconsumed(rem, pairs) == SelectSeq(rem, LAMBDA i : i \notin Consumed(pairs))

\* a set of pairs of positions as a sequence, in lexicographic order of
\* the positions' places in rem
InLoopOrder(rem, S) ==
    LET Place(i) == CHOOSE k \in 1..Len(rem) : rem[k] = i
        Before(p, q) == \/ Place(p[1]) < Place(q[1])
                        \/ Place(p[1]) = Place(q[1]) /\ Place(p[2]) < Place(q[2])
    IN  [r \in 1..Cardinality(S) |->
            CHOOSE p \in S : Cardinality({q \in S : Before(q, p)}) = r - 1]


ALIPAY == "Assets:Alipay"
WECHAT == "Assets:WeChat"

MatchTx(src, pm, ref, cref, payee, narration, amt, day) ==
    [source_account |-> src, payment_method |-> pm, reference_id |-> ref,
     counterpart_ref |-> cref, payee |-> payee, narration |-> narration,
     amount |-> amt, currency |-> "CNY", date |-> day]

\* the transactions of the sources: platform records with and without a
\* payment method, bank records that mention a platform, records that
\* share reference values, and records with like and unlike texts
MatchTemplates ==
    {MatchTx(ALIPAY, "card", "R1", "R2", "bc", "de", -100, 1),
     MatchTx(CMB, NONE, "R1", NONE, "Alipay", "x", -100, 1),
     MatchTx(WECHAT, NONE, NONE, "R2", "xy", "", -100, 1),
     MatchTx(ALIPAY, NONE, NONE, NONE, "Alipay", "x", -100, 5),
     MatchTx(CMB, NONE, NONE, NONE, "de", "bc", -100, 1),
     MatchTx(ALIPAY, "card", NONE, NONE, "bc", "de", -100, 2),
     MatchTx(WECHAT, NONE, NONE, NONE, "bc", "df", -100, 3),
     MatchTx(CMB, NONE, "", NONE, "xy", "", 100, 5),
     MatchTx(ALIPAY, NONE, "R1", NONE, "xy", "", -100, 1),
     [MatchTx(WECHAT, NONE, NONE, NONE, "bc", "de", -100, 1) EXCEPT !.currency = "HKD"]}

platform_keywords == <<"zhifubao", "caifutong", "weixin", "alipay", "wechat", "tenpay">>

\* the texts of the transactions
TemplateTexts == {PayeeText(t) : t \in MatchTemplates}

\* token_sort_ratio of every two texts, as a table (the comparison makes
\* the table explicit, so that it is computed once)
SimilarityOfTexts ==
    LET table == [p \in TemplateTexts \X TemplateTexts |-> token_sort_ratio(p[1], p[2])]
    IN  IF table = <<>> THEN <<>> ELSE table

\* the texts with any(kw in btx_text for kw in platform_keywords), lines
\* 143-145, computed once
PlatformTexts ==
    {text \in TemplateTexts :
        \E k \in 1..Len(platform_keywords) : Contains(Lower(text), platform_keywords[k])}

RECURSIVE RefEntriesIdOnly(_, _, _)
\* RefEntries without the counterpart_ref of lines 85-86
RefEntriesIdOnly(txs, rem, k) ==
    IF k > Len(rem) THEN <<>>
    ELSE (IF Truthy(txs[rem[k]].reference_id)
          THEN <<[ref |-> txs[rem[k]].reference_id, idx |-> rem[k]]>> ELSE <<>>)
         \o RefEntriesIdOnly(txs, rem, k + 1)

RECURSIVE RefEntries(_, _, _)
\* the reference values of the transactions at rem[k..], as (value,
\* position) in the order lines 82-86 append them to ref_index
RefEntries(txs, rem, k) ==
    IF k > Len(rem) THEN <<>>
    ELSE (IF Truthy(txs[rem[k]].reference_id)
          THEN <<[ref |-> txs[rem[k]].reference_id, idx |-> rem[k]]>> ELSE <<>>)
         \o (IF Truthy(txs[rem[k]].counterpart_ref)
             THEN <<[ref |-> txs[rem[k]].counterpart_ref, idx |-> rem[k]]>> ELSE <<>>)
         \o RefEntries(txs, rem, k + 1)

RECURSIVE RefPairsFrom(_, _)
\* the pairs (indices[0], indices[j]) of lines 89-93, key by key in the
\* order the keys entered ref_index; e is the place of the next entry
RefPairsFrom(entries, e) ==
    IF e > Len(entries) THEN <<>>
    ELSE IF \E d \in 1..(e - 1) : entries[d].ref = entries[e].ref
         THEN RefPairsFrom(entries, e + 1)
         ELSE LET same    == SelectSeq(entries, LAMBDA x : x.ref = entries[e].ref)
                  indices == [k \in 1..Len(same) |-> same[k].idx]
              IN  [j \in 1..(Len(indices) - 1) |-> <<indices[1], indices[j + 1]>>]
                     \o RefPairsFrom(entries, e + 1)

MatchResult(pair, type, conf) ==
    [tx_a |-> pair[1], tx_b |-> pair[2], match_type |-> type, confidence |-> conf]

\* _phase_reference: the matches and the remaining positions
phase_reference(txs, rem) ==
    LET pairs == RefPairsFrom(RefEntries(txs, rem, 1), 1)
        ok    == {q \in Range(pairs) : txs[q[1]].source_account # txs[q[2]].source_account}
        taken == GreedyFrom(pairs, ok, 1, <<>>)
    IN  [matches   |-> [k \in 1..Len(taken) |->
                          MatchResult(taken[k], "reference", [num |-> 1, den |-> 1])],
         remaining |-> Unconsumed(rem, taken)]

\* IntermediaryTest without the date window of lines 139-141
IntermediaryTestNoDate(ptx, btx) ==
    /\ Abs(ptx.amount) = Abs(btx.amount)
    /\ ptx.currency = btx.currency
    /\ PayeeText(btx) \in PlatformTexts

\* the test of lines 133-145 on a platform and a bank transaction
IntermediaryTest(ptx, btx) ==
    /\ Abs(ptx.amount) = Abs(btx.amount)
    /\ ptx.currency = btx.currency
    /\ Abs(ptx.date - btx.date) <= date_tolerance_days
    /\ PayeeText(btx) \in PlatformTexts

\* _phase_intermediary: the matches and the remaining positions
phase_intermediary(txs, rem) ==
    LET platform_txs == {i \in Range(rem) : Truthy(txs[i].payment_method)}
        bank_txs     == {i \in Range(rem) : ~Truthy(txs[i].payment_method)}
        pairs == InLoopOrder(rem, platform_txs \X bank_txs)
        ok    == {q \in Range(pairs) : IntermediaryTest(txs[q[1]], txs[q[2]])}
        taken == GreedyFrom(pairs, ok, 1, <<>>)
    IN  [matches   |-> [k \in 1..Len(taken) |->
                          MatchResult(taken[k], "intermediary", [num |-> 9, den |-> 10])],
         remaining |-> Unconsumed(rem, taken)]

\* the tests of lines 177-190 that come before the similarity
FuzzyCandidates(tx_a, tx_b) ==
    /\ tx_a.source_account # tx_b.source_account
    /\ Abs(tx_a.amount) = Abs(tx_b.amount)
    /\ tx_a.currency = tx_b.currency
    /\ Abs(tx_a.date - tx_b.date) <= date_tolerance_days

\* similarity of lines 193-195
Similarity(tx_a, tx_b) == SimilarityOfTexts[<<PayeeText(tx_a), PayeeText(tx_b)>>]

\* FuzzyTest without the threshold of line 197
FuzzyTestNoThreshold(tx_a, tx_b) == FuzzyCandidates(tx_a, tx_b)

\* the test of lines 177-197 on a pair
FuzzyTest(tx_a, tx_b) ==
    FuzzyCandidates(tx_a, tx_b) /\ FracGeq(Similarity(tx_a, tx_b), fuzzy_threshold)

\* _phase_fuzzy: the matches and the remaining positions
phase_fuzzy(txs, rem) ==
    LET places == {<<a, b>> \in (1..Len(rem)) \X (1..Len(rem)) : a < b}
        pairs  == InLoopOrder(rem, {<<rem[q[1]], rem[q[2]]>> : q \in places})
        ok     == {q \in Range(pairs) : FuzzyTest(txs[q[1]], txs[q[2]])}
        taken  == GreedyFrom(pairs, ok, 1, <<>>)
    IN  [matches   |-> [k \in 1..Len(taken) |->
                          MatchResult(taken[k], "fuzzy",
                                      Similarity(txs[taken[k][1]], txs[taken[k][2]]))],
         remaining |-> Unconsumed(rem, taken)]

MatchInputs == SeqsUpTo(MatchTemplates, MaxMatchTxs)

InitMatch ==
    /\ match_input = <<>>
    /\ remaining = <<>>
    /\ all_matches = <<>>
    /\ match_pc = "call"
    /\ MatchOthersIdle

\* the call match(transactions), lines 56-57
MatchCall ==
    /\ match_pc = "call"
    /\ \E inp \in MatchInputs :
          /\ match_input' = inp
          /\ remaining' = [k \in 1..Len(inp) |-> k]
    /\ all_matches' = <<>>
    /\ match_pc' = "reference"
    /\ UNCHANGED matchOthers

\* PhaseReference that hands the whole list on to the next phase
PhaseReferenceKeepAll ==
    /\ match_pc = "reference"
    /\ all_matches' = all_matches \o phase_reference(match_input, remaining).matches
    /\ match_pc' = "intermediary"
    /\ UNCHANGED <<match_input, remaining>>
    /\ UNCHANGED matchOthers

\* lines 59-61: phase 1
PhaseReference ==
    /\ match_pc = "reference"
    /\ LET out == phase_reference(match_input, remaining)
       IN  /\ all_matches' = all_matches \o out.matches
           /\ remaining' = out.remaining
    /\ match_pc' = "intermediary"
    /\ UNCHANGED match_input
    /\ UNCHANGED matchOthers

\* lines 63-65: phase 2
PhaseIntermediary ==
    /\ match_pc = "intermediary"
    /\ LET out == phase_intermediary(match_input, remaining)
       IN  /\ all_matches' = all_matches \o out.matches
           /\ remaining' = out.remaining
    /\ match_pc' = "fuzzy"
    /\ UNCHANGED match_input
    /\ UNCHANGED matchOthers

\* lines 67-71: the last phase; all_matches and remaining are the
\* matched and unmatched lists of the MatchingOutput
PhaseFuzzy ==
    /\ match_pc = "fuzzy"
    /\ LET out == phase_fuzzy(match_input, remaining)
       IN  /\ all_matches' = all_matches \o out.matches
           /\ remaining' = out.remaining
    /\ match_pc' = "done"
    /\ UNCHANGED match_input
    /\ UNCHANGED matchOthers

NextMatch == MatchCall \/ PhaseReference \/ PhaseIntermediary \/ PhaseFuzzy

SpecMatch == InitMatch /\ [][NextMatch]_vars


\* the positions a MatchResult pairs
PairOf(m) == {m.tx_a, m.tx_b}

\* the positions in any MatchResult so far
MatchedPositions == UNION {PairOf(all_matches[x]) : x \in 1..Len(all_matches)}

\* the MatchResults of one phase
MatchesOfType(type) == {x \in 1..Len(all_matches) : all_matches[x].match_type = type}

\* C7: no position of the input is in more than one MatchResult, within
\* a phase or across phases, and a position that a phase has consumed is
\* not in the list handed to the next phase (nor in the unmatched list).
C7_PositionMatchedAtMostOnce ==
    /\ \A x, y \in 1..Len(all_matches) :
          x # y => PairOf(all_matches[x]) \cap PairOf(all_matches[y]) = {}
    /\ \A x \in 1..Len(all_matches) : all_matches[x].tx_a # all_matches[x].tx_b
    /\ Range(remaining) \cap MatchedPositions = {}

\* match has returned two pairs found by different phases
C7_Witness ==
    /\ match_pc = "done"
    /\ \E x, y \in 1..Len(all_matches) :
          all_matches[x].match_type # all_matches[y].match_type
    /\ Cardinality(MatchedPositions) = 4

\* a and b come from different sources and share a reference value that
\* no third transaction carries
SharesOwnReference(txs, a, b) ==
    /\ a # b
    /\ txs[a].source_account # txs[b].source_account
    /\ \E v \in RefSet(txs[a]) \cap RefSet(txs[b]) :
          \A c \in 1..Len(txs) : c \notin {a, b} => v \notin RefSet(txs[c])

\* a and b are reported as one pair of type "reference" with confidence
\* 1.0 and neither is unmatched
ReportedAsReferencePair(a, b) ==
    /\ Cardinality({x \in 1..Len(all_matches) : PairOf(all_matches[x]) = {a, b}}) = 1
    /\ \E x \in 1..Len(all_matches) :
          /\ PairOf(all_matches[x]) = {a, b}
          /\ all_matches[x].match_type = "reference"
          /\ all_matches[x].confidence = [num |-> 1, den |-> 1]
    /\ a \notin Range(remaining)
    /\ b \notin Range(remaining)

\* C8 as stated: two transactions of different sources that share a
\* reference value which no third transaction carries are reported as one
\* "reference" pair with confidence 1.0, and neither is unmatched.
C8_Original_SharedReferencePairs ==
    match_pc = "done" =>
        \A a, b \in 1..Len(match_input) :
            SharesOwnReference(match_input, a, b) => ReportedAsReferencePair(a, b)

\* no third transaction carries any reference value of a or of b
NoThirdSharesAny(txs, a, b) ==
    \A c \in 1..Len(txs) :
        c \notin {a, b} => RefSet(txs[c]) \cap (RefSet(txs[a]) \cup RefSet(txs[b])) = {}

\* C8 (amended): two transactions of different sources that share a
\* reference value, where no third transaction carries any reference value
\* of either of them, are reported as one "reference" pair with
\* confidence 1.0, and neither is unmatched.
C8_ExclusiveReferencePairs ==
    match_pc = "done" =>
        \A a, b \in 1..Len(match_input) :
            (SharesOwnReference(match_input, a, b) /\ NoThirdSharesAny(match_input, a, b))
                => ReportedAsReferencePair(a, b)

\* match has returned; among three or more transactions two shared a
\* value through a counterpart_ref, exclusively, and were paired
C8_Witness ==
    /\ match_pc = "done"
    /\ Len(match_input) >= 3
    /\ \E a, b \in 1..Len(match_input) :
          /\ SharesOwnReference(match_input, a, b)
          /\ NoThirdSharesAny(match_input, a, b)
          /\ match_input[a].reference_id # match_input[b].reference_id
          /\ ReportedAsReferencePair(a, b)

\* C9: no MatchResult of any phase pairs two transactions with equal
\* source_account.
C9_NoSameSourcePair ==
    \A x \in 1..Len(all_matches) :
        match_input[all_matches[x].tx_a].source_account
            # match_input[all_matches[x].tx_b].source_account

\* a and b are fuzzy candidates that no earlier phase paired and whose
\* similarity is below the threshold
BelowThresholdPair(a, b) ==
    /\ a # b
    /\ FuzzyCandidates(match_input[a], match_input[b])
    /\ \A x \in MatchesOfType("reference") \cup MatchesOfType("intermediary") :
          PairOf(all_matches[x]) \cap {a, b} = {}
    /\ ~FracGeq(Similarity(match_input[a], match_input[b]), fuzzy_threshold)

\* every fuzzy MatchResult has confidence >= the threshold
FuzzyConfidenceAboveThreshold ==
    \A x \in MatchesOfType("fuzzy") : FracGeq(all_matches[x].confidence, fuzzy_threshold)

\* C10 as stated: two fuzzy candidates that phases 1 and 2 left unpaired
\* and whose similarity is below the threshold are both unmatched after
\* phase 3; every fuzzy MatchResult has confidence >= the threshold.
C10_Original_BelowThresholdUnmatched ==
    match_pc = "done" =>
        /\ \A a, b \in 1..Len(match_input) :
              BelowThresholdPair(a, b) => {a, b} \subseteq Range(remaining)
        /\ FuzzyConfidenceAboveThreshold

\* position a is unmatched, or phase 3 paired it with a position other
\* than b
UnmatchedOrFuzzyWithThird(a, b) ==
    \/ a \in Range(remaining)
    \/ \E x \in MatchesOfType("fuzzy") :
          a \in PairOf(all_matches[x]) /\ b \notin PairOf(all_matches[x])

\* C10 (amended): two fuzzy candidates that phases 1 and 2 left unpaired
\* and whose similarity is below the threshold are never paired with each
\* other, and each is unmatched after phase 3 unless phase 3 paired it
\* with a third transaction; every fuzzy MatchResult has confidence >=
\* the threshold.
C10_BelowThresholdNeverPaired ==
    match_pc = "done" =>
        /\ \A a, b \in 1..Len(match_input) :
              BelowThresholdPair(a, b) =>
                  /\ \A x \in 1..Len(all_matches) : PairOf(all_matches[x]) # {a, b}
                  /\ UnmatchedOrFuzzyWithThird(a, b)
                  /\ UnmatchedOrFuzzyWithThird(b, a)
        /\ FuzzyConfidenceAboveThreshold

\* match has returned; of two candidates below the threshold one stayed
\* unmatched and the other was paired by phase 3 with a third transaction
\* at a confidence below 1
C10_Witness ==
    /\ match_pc = "done"
    /\ \E a, b \in 1..Len(match_input) :
          /\ BelowThresholdPair(a, b)
          /\ b \in Range(remaining)
          /\ \E x \in MatchesOfType("fuzzy") :
                /\ a \in PairOf(all_matches[x])
                /\ all_matches[x].confidence # [num |-> 10, den |-> 10]

\* the reference values of the input in the order of their first
\* appearance, reference_id before counterpart_ref
RefValues ==
    LET entries == RefEntries(match_input, [k \in 1..Len(match_input) |-> k], 1)
        firsts  == {e \in 1..Len(entries) :
                       \A d \in 1..(e - 1) : entries[d].ref # entries[e].ref}
    IN  [r \in 1..Cardinality(firsts) |->
            entries[CHOOSE e \in firsts : Cardinality({d \in firsts : d < e}) = r - 1].ref]

\* the first two of the positions in free, in input order, that carry the
\* value v and have different source_account; <<>> when there are none
FirstTwoCarriers(v, free) ==
    LET carriers == {i \in free : v \in RefSet(match_input[i])}
        cands    == {q \in carriers \X carriers :
                        /\ q[1] < q[2]
                        /\ match_input[q[1]].source_account
                              # match_input[q[2]].source_account}
    IN  IF cands = {} THEN <<>>
        ELSE CHOOSE q \in cands :
                \A o \in cands : q[1] < o[1] \/ (q[1] = o[1] /\ q[2] <= o[2])

RECURSIVE FirstTwoPairs(_, _, _)
\* value by value, the first two not yet consumed carriers with different
\* source_account
FirstTwoPairs(values, k, acc) ==
    IF k > Len(values) THEN acc
    ELSE LET q == FirstTwoCarriers(values[k], (1..Len(match_input)) \ Consumed(acc))
         IN  FirstTwoPairs(values, k + 1, IF q = <<>> THEN acc ELSE Append(acc, q))

\* the pairs of the "reference" MatchResults, in the order of the list
ReferencePairs ==
    LET refs == SelectSeq(all_matches, LAMBDA m : m.match_type = "reference")
    IN  [x \in 1..Len(refs) |-> <<refs[x].tx_a, refs[x].tx_b>>]

\* C23: Phase 1 pairs, for each reference value, the first two not yet
\* consumed transactions in input order that carry the value and have
\* different source_account, with confidence 1.0, also when the first
\* transaction that carries the value is consumed already or has the
\* source_account of the second.
C23_ReferencePairsFirstTwoUnconsumed ==
    match_pc \in {"intermediary", "fuzzy", "done"} =>
        /\ ReferencePairs = FirstTwoPairs(RefValues, 1, <<>>)
        /\ \A x \in 1..Len(all_matches) :
              all_matches[x].match_type = "reference" =>
                  all_matches[x].confidence = [num |-> 1, den |-> 1]

\* the positions Phase 1 leaves to Phase 2
AfterReference == (1..Len(match_input)) \ Consumed(ReferencePairs)

\* the pairs of the "intermediary" MatchResults
IntermediaryPairs ==
    {<<all_matches[x].tx_a, all_matches[x].tx_b>> :
        x \in {y \in 1..Len(all_matches) : all_matches[y].match_type = "intermediary"}}

IsPlatform(i) == Truthy(match_input[i].payment_method)

\* the conditions of the claim on a platform position p and a bank position b
Fits(p, b) ==
    /\ Abs(match_input[p].amount) = Abs(match_input[b].amount)
    /\ match_input[p].currency = match_input[b].currency
    /\ Abs(match_input[p].date - match_input[b].date) <= date_tolerance_days
    /\ PayeeText(match_input[b]) \in PlatformTexts

\* the bank positions open to the platform position p: left by Phase 1, not
\* paired with an earlier platform position, and fitting p
FittingBanks(p) ==
    {b \in AfterReference :
        /\ ~IsPlatform(b)
        /\ \A q \in IntermediaryPairs : q[1] < p => q[2] # b
        /\ Fits(p, b)}

\* C24: every "intermediary" MatchResult pairs a transaction with a
\* payment_method (tx_a) with one without (tx_b) that has the same absolute
\* amount and currency, lies within the date tolerance (inclusive) and
\* mentions a platform keyword, with confidence 0.9; every platform
\* transaction, in input order, gets the first bank transaction in input
\* order that is still unconsumed and fits, and none when there is none.
C24_IntermediaryFirstFittingBank ==
    match_pc \in {"fuzzy", "done"} =>
        /\ \A x \in 1..Len(all_matches) :
              all_matches[x].match_type = "intermediary" =>
                  /\ IsPlatform(all_matches[x].tx_a)
                  /\ ~IsPlatform(all_matches[x].tx_b)
                  /\ Fits(all_matches[x].tx_a, all_matches[x].tx_b)
                  /\ all_matches[x].confidence = [num |-> 9, den |-> 10]
        /\ \A p \in AfterReference :
              IsPlatform(p) =>
                  IF FittingBanks(p) = {}
                  THEN \A q \in IntermediaryPairs : q[1] # p
                  ELSE \E b \in FittingBanks(p) :
                          /\ \A o \in FittingBanks(p) : b <= o
                          /\ IntermediaryPairs \cap ({p} \X (1..Len(match_input)))
                                = {<<p, b>>}

\* a platform transaction paired with a bank transaction exactly the
\* tolerance away although a later bank transaction fits as well, and a
\* platform transaction left unpaired because the one open bank transaction
\* that mentions a platform lies outside the tolerance
C24_Witness ==
    /\ match_pc = "done"
    /\ \E q \in IntermediaryPairs :
          /\ Abs(match_input[q[1]].date - match_input[q[2]].date) = date_tolerance_days
          /\ \E b \in AfterReference : b > q[2] /\ ~IsPlatform(b) /\ Fits(q[1], b)
    /\ \E p \in AfterReference :
          /\ IsPlatform(p)
          /\ \A q \in IntermediaryPairs : q[1] # p
          /\ \E b \in AfterReference :
                /\ ~IsPlatform(b)
                /\ \A q \in IntermediaryPairs : q[2] # b
                /\ PayeeText(match_input[b]) \in PlatformTexts
                /\ Abs(match_input[p].amount) = Abs(match_input[b].amount)
                /\ match_input[p].currency = match_input[b].currency
                /\ Abs(match_input[p].date - match_input[b].date) > date_tolerance_days

\* how often the position i occurs in the MatchResults and in unmatched
Occurrences(i) ==
    Cardinality({x \in 1..Len(all_matches) : all_matches[x].tx_a = i})
      + Cardinality({x \in 1..Len(all_matches) : all_matches[x].tx_b = i})
      + Cardinality({k \in 1..Len(remaining) : remaining[k] = i})

\* C27: match partitions its input: every position is in exactly one
\* MatchResult or exactly once in unmatched, so that len(unmatched) +
\* 2 * len(matched) = len(input); unmatched keeps the order of the input,
\* and the input list is not modified.
C27_MatchPartitionsInput ==
    /\ [](match_pc = "done" =>
            /\ \A i \in 1..Len(match_input) : Occurrences(i) = 1
            /\ \A x \in 1..Len(all_matches) :
                  {all_matches[x].tx_a, all_matches[x].tx_b} \subseteq 1..Len(match_input)
            /\ Range(remaining) \subseteq 1..Len(match_input)
            /\ Len(remaining) + 2 * Len(all_matches) = Len(match_input)
            /\ \A k \in 1..(Len(remaining) - 1) : remaining[k] < remaining[k + 1])
    /\ [][match_pc # "call" => match_input' = match_input]_vars

\* a finished run with a matched pair that lies between two unmatched
\* transactions of the input
C27_Witness ==
    /\ match_pc = "done"
    /\ Len(remaining) = 2
    /\ \E x \in 1..Len(all_matches) :
          /\ remaining[1] < all_matches[x].tx_a
          /\ all_matches[x].tx_a < remaining[2]
          /\ remaining[1] < all_matches[x].tx_b
          /\ all_matches[x].tx_b < remaining[2]

-----------------------------------------------------------------------------
(***************************************************************************)
(* Clearing account routing: resolve_payment_to_clearing                   *)
(* (importers/clearing.py) with the bank table of importers/resolve.py.   *)
(* The keywords written in Chinese stand here in Latin transcription;     *)
(* the transcriptions keep which keyword is a prefix of which and the     *)
(* order of the keyword lengths.                                           *)
(***************************************************************************)

MaxParts == 3

\* PLATFORM_IDENTIFIERS, in dict order
PLATFORM_IDENTIFIERS ==
    <<[code |-> "WX", keywords |-> <<"Weixin", "Caifutong", "WeChat", "Tenpay">>],
      [code |-> "Alipay", keywords |-> <<"Zhifubao", "Alipay">>],
      [code |-> "ApplePay", keywords |-> <<"Apple">>]>>

\* PLATFORM_INTERNAL_ACCOUNTS.get(platform, {}).items(), in dict order
PLATFORM_INTERNAL_ACCOUNTS(platform) ==
    CASE platform = "WX" ->
            <<[keyword |-> "Lingqian", account |-> "Assets:WeChat"],
              [keyword |-> "Lingqiantong", account |-> "Assets:WeChat"]>>
      [] platform = "Alipay" ->
            <<[keyword |-> "Yue", account |-> "Assets:Alipay"],
              [keyword |-> "Yuebao", account |-> "Assets:Alipay"]>>
      [] platform = "JD" ->
            <<[keyword |-> "Baitiao", account |-> "Liabilities:JD:BaiTiao"],
              [keyword |-> "JingdongBaitiao", account |-> "Liabilities:JD:BaiTiao"],
              [keyword |-> "Xiaojinku", account |-> "Assets:JD:XiaoJinKu"],
              [keyword |-> "JingdongXiaojinku", account |-> "Assets:JD:XiaoJinKu"]>>
      [] OTHER -> <<>>

\* BANK_PATTERNS.items(), in dict order
BANK_PATTERNS ==
    <<[name |-> "ZhaoshangYinhang", code |-> "CMB"],
      [name |-> "GongshangYinhang", code |-> "ICBC"],
      [name |-> "JiansheYinhang", code |-> "CCB"],
      [name |-> "ZhongguoYinhang", code |-> "BOC"],
      [name |-> "ZhongxinYinhang", code |-> "CITIC"],
      [name |-> "NongyeYinhang", code |-> "ABC"],
      [name |-> "JiaotongYinhang", code |-> "COMM"],
      [name |-> "PufaYinhang", code |-> "SPDB"],
      [name |-> "XingyeYinhang", code |-> "CIB"],
      [name |-> "MinshengYinhang", code |-> "CMBC"],
      [name |-> "GuangdaYinhang", code |-> "CEB"],
      [name |-> "PinganYinhang", code |-> "PAB"],
      [name |-> "GuangfaYinhang", code |-> "GDB"],
      [name |-> "YouchuYinhang", code |-> "PSBC"],
      [name |-> "Huifeng", code |-> "HSBC"]>>

\* the keywords of the debit and of the credit card
DEBIT_CARD == "Chuxuka"
CREDIT_CARD == "Xinyongka"

RECURSIVE Strip(_)
\* str.strip()
Strip(str) ==
    IF Len(str) = 0 THEN str
    ELSE IF SubSeq(str, 1, 1) = " " THEN Strip(SubSeq(str, 2, Len(str)))
    ELSE IF SubSeq(str, Len(str), Len(str)) = " " THEN Strip(SubSeq(str, 1, Len(str) - 1))
    ELSE str

\* sorted(internal.items(), key=lambda x: -len(x[0])): the longest keyword
\* first, keywords of one length in dict order
SortedInternal(platform) ==
    LET internal == PLATFORM_INTERNAL_ACCOUNTS(platform)
        n        == Len(internal)
        Rank(k)  == 1 + Cardinality({j \in 1..n :
                          \/ Len(internal[j].keyword) > Len(internal[k].keyword)
                          \/ /\ Len(internal[j].keyword) = Len(internal[k].keyword)
                             /\ j < k})
    IN  [r \in 1..n |-> internal[CHOOSE k \in 1..n : Rank(k) = r]]

\* the loop of lines 82-84: the account of the first keyword, longest
\* first, that method starts with, else NONE
InternalAccount(method, platform) ==
    LET internal == SortedInternal(platform)
        hits     == {k \in 1..Len(internal) : StartsWith(method, internal[k].keyword)}
    IN  IF hits = {} THEN NONE
        ELSE internal[CHOOSE k \in hits : \A h \in hits : k <= h].account

\* the loops of lines 92-94 and 100-102: the code of the first channel, in
\* dict order, one of whose keywords text contains, else NONE
ChannelCode(text) ==
    LET hits == {k \in 1..Len(PLATFORM_IDENTIFIERS) :
                    \E w \in 1..Len(PLATFORM_IDENTIFIERS[k].keywords) :
                        Contains(text, PLATFORM_IDENTIFIERS[k].keywords[w])}
    IN  IF hits = {} THEN NONE
        ELSE PLATFORM_IDENTIFIERS[CHOOSE k \in hits : \A h \in hits : k <= h].code

\* lines 105-110 with the credit card for every method
card_prefix_always_cc(method) == "CC"

\* lines 105-110
card_prefix(method) ==
    IF Contains(method, DEBIT_CARD) THEN "Bank"
    ELSE IF Contains(method, CREDIT_CARD) THEN "CC"
    ELSE "CC"

\* the loop of lines 112-114: the code of the first bank, in dict order,
\* whose name method contains, else NONE
BankCode(method) ==
    LET hits == {k \in 1..Len(BANK_PATTERNS) : Contains(method, BANK_PATTERNS[k].name)}
    IN  IF hits = {} THEN NONE
        ELSE BANK_PATTERNS[CHOOSE k \in hits : \A h \in hits : k <= h].code

\* method.split("-", 1): the position of the first "-", 0 when there is none
FirstDash(method) ==
    LET dashes == {k \in 1..Len(method) : SubSeq(method, k, k) = "-"}
    IN  IF dashes = {} THEN 0 ELSE CHOOSE k \in dashes : \A d \in dashes : k <= d

RECURSIVE resolve_payment_to_clearing(_, _)
resolve_payment_to_clearing(payment_method, platform) ==
    LET method == Strip(payment_method)
        root   == "Assets:Clearing:" \o platform \o ":"
    IN  IF method = "" \/ method = "/" THEN root \o "Unknown"
        ELSE IF InternalAccount(method, platform) # NONE
        THEN InternalAccount(method, platform)
        ELSE IF FirstDash(method) # 0
        THEN LET k      == FirstDash(method)
                 prefix == Strip(SubSeq(method, 1, k - 1))
                 rest   == SubSeq(method, k + 1, Len(method))
             IN  IF ChannelCode(prefix) # NONE THEN root \o ChannelCode(prefix)
                 ELSE resolve_payment_to_clearing(rest, platform)
        ELSE IF ChannelCode(method) # NONE THEN root \o ChannelCode(method)
        ELSE IF BankCode(method) # NONE
        THEN root \o card_prefix(method) \o ":" \o BankCode(method)
        ELSE root \o "Unknown"

\* the pieces payment method strings are put together from: blanks, the
\* separator, the placeholder "/", wallet, channel, bank and card keywords
\* and a card number
MethodParts ==
    {" ", "-", "/", "Lingqian", "Lingqiantong", "Baitiao", "Weixin", "Zhifubao",
     "ZhaoshangYinhang", "GongshangYinhang", "Xinyongka", "Chuxuka", "(0913)"}

RECURSIVE Concat(_)
Concat(parts) == IF parts = <<>> THEN "" ELSE Head(parts) \o Concat(Tail(parts))

MethodInputs == {Concat(parts) : parts \in SeqsUpTo(MethodParts, MaxParts)}

\* the platforms: WeChat (the caller of wechat.py), JD, and one without
\* internal accounts
PlatformInputs == {"WX", "JD", "ALDI"}

InitRpc ==
    /\ rpc_method \in MethodInputs
    /\ rpc_platform \in PlatformInputs
    /\ rpc_result = NONE
    /\ rpc_pc = "call"
    /\ RpcOthersIdle

\* the call resolve_payment_to_clearing(rpc_method, rpc_platform)
ResolvePaymentToClearing ==
    /\ rpc_pc = "call"
    /\ rpc_result' = resolve_payment_to_clearing(rpc_method, rpc_platform)
    /\ rpc_pc' = "done"
    /\ UNCHANGED <<rpc_method, rpc_platform>>
    /\ UNCHANGED rpcOthers

NextRpc == ResolvePaymentToClearing

SpecRpc == InitRpc /\ [][NextRpc]_vars

RECURSIVE RuleResults(_, _, _)
\* what the five rules, the first applicable one winning, allow as the
\* result for a method string; with stripped, a string is taken without
\* its leading and trailing blanks before the rules are tried
RuleResults(raw, platform, stripped) ==
    LET method   == IF stripped THEN Strip(raw) ELSE raw
        root     == "Assets:Clearing:" \o platform \o ":"
        wallets  == {e \in Range(PLATFORM_INTERNAL_ACCOUNTS(platform)) :
                        StartsWith(method, e.keyword)}
        dashes   == {k \in 1..Len(method) : SubSeq(method, k, k) = "-"}
        Channels(text) ==
            {c \in Range(PLATFORM_IDENTIFIERS) :
                \E kw \in Range(c.keywords) : Contains(text, kw)}
        banks    == {b \in Range(BANK_PATTERNS) : Contains(method, b.name)}
    IN  IF wallets # {} THEN {e.account : e \in wallets}
        ELSE IF dashes # {}
        THEN LET k == CHOOSE d \in dashes : \A e \in dashes : d <= e
             IN  IF Channels(SubSeq(method, 1, k - 1)) # {}
                 THEN {root \o c.code : c \in Channels(SubSeq(method, 1, k - 1))}
                 ELSE RuleResults(SubSeq(method, k + 1, Len(method)), platform, stripped)
        ELSE IF Channels(method) # {} THEN {root \o c.code : c \in Channels(method)}
        ELSE IF banks # {}
        THEN {root \o (IF Contains(method, DEBIT_CARD) THEN "Bank" ELSE "CC")
                   \o ":" \o b.code : b \in banks}
        ELSE {root \o "Unknown"}

-----------------------------------------------------------------------------
(***************************************************************************)
(* Ledger writer: write_transactions with transaction_to_bean and         *)
(* multiposting_transaction_to_bean (ledger/writer.py).  One action per   *)
(* iteration of the for loop and one for the sort and the output.  An     *)
(* entry is its date, its links and its postings; a posting is its        *)
(* account, its number in cents, its currency and its price, a rate in    *)
(* millionths.  tx.aldi_items, tx.costco_items, tx.jd_items,              *)
(* tx.jd_gift_card, tx.foreign_amount and tx.foreign_currency are the     *)
(* metadata entries (<<>> and NONE for a missing key), tx.categorized is  *)
(* what categorizer.categorize(tx) returns, NONE without a categorizer.   *)
(***************************************************************************)

MaxWrTxs == 2

make_posting(account, number, currency) ==
    [account |-> account, number |-> number, currency |-> currency,
     price_number |-> 0, price_currency |-> NONE]

get_expense_account_for_type(tx_type) ==
    IF tx_type = "income" THEN "Income:Uncategorized" ELSE "Expenses:Uncategorized"

\* Links that keeps the link of a bridge only
LinksOfBridges(tx) ==
    IF Truthy(tx.link) /\ Truthy(tx.counter_account) THEN {tx.link} ELSE {}

\* frozenset({tx.metadata["link"]}) if tx.metadata.get("link") else frozenset()
Links(tx) == IF Truthy(tx.link) THEN {tx.link} ELSE {}

BeanTransaction(tx, postings) ==
    [date |-> tx.date, links |-> Links(tx), postings |-> postings]

transaction_to_bean(tx, counter_account) ==
    LET counter == IF counter_account = NONE
                   THEN get_expense_account_for_type(tx.tx_type)
                   ELSE counter_account
    IN  BeanTransaction(tx,
            <<make_posting(tx.source_account, tx.amount, tx.currency),
              make_posting(counter, -tx.amount, tx.currency)>>)

\* without source_posting_override, which write_transactions never passes
multiposting_transaction_to_bean(tx, category_amounts, gift_card_amount) ==
    BeanTransaction(tx,
        <<make_posting(tx.source_account, tx.amount, tx.currency)>>
        \o (IF gift_card_amount > 0
            THEN <<make_posting("Assets:JD:GiftCard", -gift_card_amount, tx.currency)>>
            ELSE <<>>)
        \o [c \in 1..Len(category_amounts) |->
               make_posting(category_amounts[c].acct, category_amounts[c].total,
                            tx.currency)])

\* num / den rounded half-even to an integer, for num >= 0 and den > 0
RoundHalfEven(num, den) ==
    LET q == num \div den
        r == num % den
    IN  IF 2 * r < den THEN q
        ELSE IF 2 * r > den THEN q + 1
        ELSE HalfEven(q)

\* the entry of lines 225-256 and 264-297: the source posting priced at
\* rate = (foreign_amount / hkd_amount).quantize(Decimal("0.000001")) and
\* the counter posting in the foreign currency; tx.amount # 0
cross_currency_entry(tx, counter) ==
    LET foreign_amount == DecimalCents(tx.foreign_amount)
        hkd_amount     == Abs(tx.amount)
        rate           == RoundHalfEven(foreign_amount * 1000000, hkd_amount)
    IN  BeanTransaction(tx,
            <<[make_posting(tx.source_account, tx.amount, tx.currency)
                  EXCEPT !.price_number = rate, !.price_currency = tx.foreign_currency],
              make_posting(counter,
                           IF tx.amount < 0 THEN foreign_amount ELSE -foreign_amount,
                           tx.foreign_currency)>>)

\* a or b
Or(a, b) == IF Truthy(a) THEN a ELSE b

\* foreign_amount / hkd_amount of lines 229 and 268 divides by zero
ConversionRaises(tx) ==
    /\ tx.aldi_items = <<>> /\ tx.costco_items = <<>> /\ tx.jd_items = <<>>
    /\ Truthy(tx.foreign_amount)
    /\ tx.amount = 0

\* the body of the for loop of write_transactions, lines 207-305
bean_tx(tx, counter_account) ==
    IF tx.aldi_items # <<>>
    THEN multiposting_transaction_to_bean(tx,
             group_items_by_category(tx.aldi_items, -tx.amount), 0)
    ELSE IF tx.costco_items # <<>>
    THEN multiposting_transaction_to_bean(tx,
             group_items_by_category(tx.costco_items, -tx.amount), 0)
    ELSE IF tx.jd_items # <<>>
    THEN LET gift_card == IF Truthy(tx.jd_gift_card)
                          THEN DecimalCents(tx.jd_gift_card) ELSE 0
         IN  multiposting_transaction_to_bean(tx,
                 group_items_by_category(tx.jd_items, -tx.amount + gift_card), gift_card)
    ELSE IF Truthy(tx.counter_account)
    THEN IF Truthy(tx.foreign_amount)
         THEN cross_currency_entry(tx, tx.counter_account)
         ELSE transaction_to_bean(tx, tx.counter_account)
    ELSE IF Truthy(tx.foreign_amount)
    THEN cross_currency_entry(tx,
             Or(Or(tx.categorized, counter_account),
                get_expense_account_for_type(tx.tx_type)))
    ELSE transaction_to_bean(tx, Or(tx.categorized, counter_account))

\* bean_entries.sort(key=lambda e: e.date): a stable sort
SortedByDate(entries) ==
    LET n       == Len(entries)
        Rank(k) == 1 + Cardinality({j \in 1..n :
                         \/ entries[j].date < entries[k].date
                         \/ entries[j].date = entries[k].date /\ j < k})
    IN  [r \in 1..n |-> entries[CHOOSE k \in 1..n : Rank(k) = r]]

Item(price, num, category) == [price |-> price, num |-> num, category |-> category]

WrTx(day, amt, typ, ctr, cat) ==
    [date |-> day, amount |-> amt, currency |-> "CNY", tx_type |-> typ,
     source_account |-> CMB, counter_account |-> ctr, categorized |-> cat,
     link |-> NONE, aldi_items |-> <<>>, costco_items |-> <<>>, jd_items |-> <<>>,
     jd_gift_card |-> NONE, foreign_amount |-> NONE, foreign_currency |-> NONE]

\* the transactions a run is fed: plain expenses and incomes with and
\* without a category, bridges with an explicit counter account, itemized
\* ALDI, Costco and JD receipts (among them the receipt of 115.9 + 33.9
\* paid with 141.8, receipts whose amounts do not divide evenly, a JD order
\* paid in part with a gift card, a refund, and an ALDI order whose only
\* product has price 0), and WeChat HK payments with a foreign amount;
\* one transaction of every kind carries a link of the propagator
WrTemplates ==
    {WrTx(1, -10000, "expense", NONE, NONE),
     WrTx(2, 5000, "income", NONE, NONE),
     WrTx(3, -2500, "expense", "", "Expenses:Food"),
     WrTx(1, -10000, "expense", JD, NONE),
     [WrTx(2, -10000, "expense", JDWX, "Expenses:Food") EXCEPT !.link = "clr-000000"],
     [WrTx(3, -14180, "expense", NONE, NONE) EXCEPT
         !.aldi_items = <<Item(11590, 1, "Expenses:Food"), Item(3390, 1, "Expenses:Home")>>],
     [WrTx(1, -500, "expense", NONE, NONE) EXCEPT
         !.aldi_items = <<Item(0, 1, "Expenses:Food")>>],
     [WrTx(2, 0, "expense", NONE, NONE) EXCEPT
         !.aldi_items = <<Item(3, 1, "Expenses:Food")>>],
     [WrTx(1, -1, "expense", JD, NONE) EXCEPT
         !.costco_items = <<Item(1, 1, "Expenses:Food"), Item(1, 1, "Expenses:Home"),
                            Item(1, 1, "Expenses:Food")>>],
     [WrTx(2, -7, "expense", NONE, NONE) EXCEPT
         !.costco_items = <<Item(3, 2, "Expenses:Home"), Item(1, 1, "Expenses:Food")>>],
     [WrTx(3, -100, "expense", NONE, NONE) EXCEPT
         !.jd_items = <<Item(3, 2, "Expenses:Home"), Item(1, 2, "Expenses:Food")>>,
         !.jd_gift_card = "5.00"],
     [WrTx(1, -7, "expense", NONE, NONE) EXCEPT
         !.jd_items = <<Item(3, 1, "Expenses:Home")>>],
     [WrTx(2, 7, "income", NONE, NONE) EXCEPT
         !.jd_items = <<Item(3, 1, "Expenses:Home"), Item(1, 1, "Expenses:Food")>>],
     [WrTx(3, -1080, "expense", JD, NONE) EXCEPT
         !.currency = "HKD", !.foreign_amount = "10.00", !.foreign_currency = "CNY"],
     [WrTx(1, -1080, "expense", NONE, NONE) EXCEPT
         !.currency = "HKD", !.foreign_amount = "10.00", !.foreign_currency = "CNY"],
     [WrTx(2, 0, "expense", NONE, NONE) EXCEPT
         !.currency = "HKD", !.foreign_amount = "10.00", !.foreign_currency = "CNY"],
     [WrTx(3, -10000, "expense", NONE, NONE) EXCEPT !.link = "clr-000001"],
     [WrTx(1, -14180, "expense", NONE, NONE) EXCEPT
         !.aldi_items = <<Item(11590, 1, "Expenses:Food"), Item(3390, 1, "Expenses:Home")>>,
         !.link = "clr-000000"],
     [WrTx(2, -7, "expense", NONE, NONE) EXCEPT
         !.costco_items = <<Item(3, 2, "Expenses:Home"), Item(1, 1, "Expenses:Food")>>,
         !.link = "clr-000001"],
     [WrTx(3, -100, "expense", NONE, NONE) EXCEPT
         !.jd_items = <<Item(3, 2, "Expenses:Home"), Item(1, 2, "Expenses:Food")>>,
         !.jd_gift_card = "5.00", !.link = "clr-000000"],
     [WrTx(1, -1080, "expense", JD, NONE) EXCEPT
         !.currency = "HKD", !.foreign_amount = "10.00", !.foreign_currency = "CNY",
         !.link = "clr-000001"],
     [WrTx(2, -1080, "expense", NONE, NONE) EXCEPT
         !.currency = "HKD", !.foreign_amount = "10.00", !.foreign_currency = "CNY",
         !.link = "clr-000000"]}

InitWrite ==
    /\ wr_transactions \in SeqsUpTo(WrTemplates, MaxWrTxs)
    /\ wr_counter_account \in {NONE, "Expenses:Misc"}
    /\ wr_pos = 1
    /\ bean_entries = <<>>
    /\ wr_output = <<>>
    /\ wr_pc = "loop"
    /\ WrOthersIdle

\* one iteration of the for loop: the entry of the next transaction is
\* appended to bean_entries
ConvertTx ==
    /\ wr_pc = "loop"
    /\ wr_pos <= Len(wr_transactions)
    /\ ~ConversionRaises(wr_transactions[wr_pos])
    /\ bean_entries' = Append(bean_entries,
                              bean_tx(wr_transactions[wr_pos], wr_counter_account))
    /\ wr_pos' = wr_pos + 1
    /\ UNCHANGED <<wr_transactions, wr_counter_account, wr_output, wr_pc>>
    /\ UNCHANGED wrOthers

\* the iteration raises decimal.DivisionByZero and nothing is written
ConvertRaises ==
    /\ wr_pc = "loop"
    /\ wr_pos <= Len(wr_transactions)
    /\ ConversionRaises(wr_transactions[wr_pos])
    /\ wr_pc' = "raised"
    /\ UNCHANGED <<wr_transactions, wr_counter_account, wr_pos, bean_entries, wr_output>>
    /\ UNCHANGED wrOthers

\* the loop is over: the entries are sorted by date and written
SortAndWrite ==
    /\ wr_pc = "loop"
    /\ wr_pos > Len(wr_transactions)
    /\ wr_output' = SortedByDate(bean_entries)
    /\ wr_pc' = "done"
    /\ UNCHANGED <<wr_transactions, wr_counter_account, wr_pos, bean_entries>>
    /\ UNCHANGED wrOthers

NextWrite == ConvertTx \/ ConvertRaises \/ SortAndWrite

SpecWrite == InitWrite /\ [][NextWrite]_vars

\* C13: the entry of every transaction converted without foreign-amount
\* metadata has at least two postings, and their amounts sum to zero.
C13_EntriesBalanced ==
    \A k \in 1..Len(bean_entries) :
        ~Truthy(wr_transactions[k].foreign_amount) =>
            /\ Len(bean_entries[k].postings) >= 2
            /\ SumSeq([p \in 1..Len(bean_entries[k].postings) |->
                          bean_entries[k].postings[p].number]) = 0

\* the branch of lines 206-308 a transaction takes
DispatchPath(tx) ==
    IF tx.aldi_items # <<>> THEN "aldi"
    ELSE IF tx.costco_items # <<>> THEN "costco"
    ELSE IF tx.jd_items # <<>> THEN "jd"
    ELSE IF Truthy(tx.counter_account)
    THEN (IF Truthy(tx.foreign_amount) THEN "bridge_foreign" ELSE "bridge")
    ELSE IF Truthy(tx.foreign_amount) THEN "foreign"
    ELSE "plain"

DispatchPaths == {"aldi", "costco", "jd", "bridge_foreign", "bridge", "foreign", "plain"}

\* C26: on every dispatch path of write_transactions the links of the
\* entry of a transaction are exactly its link tag when it has one and
\* empty otherwise, and the entries written are the entries built.
C26_LinkCarriedOnEveryPath ==
    /\ \A path \in DispatchPaths :
          \A k \in 1..Len(bean_entries) :
              DispatchPath(wr_transactions[k]) = path =>
                  bean_entries[k].links =
                      IF wr_transactions[k].link = NONE THEN {}
                      ELSE {wr_transactions[k].link}
    /\ wr_pc = "done" =>
          /\ Len(wr_output) = Len(bean_entries)
          /\ \A k \in 1..Len(bean_entries) :
                Cardinality({r \in 1..Len(wr_output) : wr_output[r] = bean_entries[k]})
                  = Cardinality({j \in 1..Len(bean_entries) :
                                    bean_entries[j] = bean_entries[k]})

\* a written ledger with the entry of a linked itemized receipt and the
\* entry of a linked payment with a foreign amount and no counter account,
\* both of one chain
C26_Witness ==
    /\ wr_pc = "done"
    /\ Len(wr_transactions) = 2
    /\ DispatchPath(wr_transactions[1]) = "jd"
    /\ DispatchPath(wr_transactions[2]) = "foreign"
    /\ wr_transactions[1].link = "clr-000000"
    /\ wr_transactions[2].link = "clr-000000"
    /\ \A r \in 1..Len(wr_output) : wr_output[r].links = {"clr-000000"}


-----------------------------------------------------------------------------
(***************************************************************************)
(* The rounding correction of group_items_by_category, stated on the      *)
(* items and the returned list alone.                                      *)
(***************************************************************************)

\* the sum of the rounded scaled amounts of the items of one category
RoundedSum(acct) ==
    LET S == listed_total(items)
        F == [i \in 1..Len(items) |->
                 IF items[i].category = acct
                 THEN Effective(Listed(items[i]), total_payment, S) ELSE 0]
    IN  SumSeq(F)

ItemCategories == {items[i].category : i \in 1..Len(items)}

\* the pairs of category names a, b with a < b as strings
NameBefore ==
    {ab \in Range(CategoryOrder) \X Range(CategoryOrder) : StrLess(ab[1], ab[2])}

\* the rounded sums of the categories, in the order of CategoryOrder
RoundedSums ==
    LET t == [r \in 1..Len(CategoryOrder) |->
                 IF CategoryOrder[r] \in ItemCategories
                 THEN RoundedSum(CategoryOrder[r]) ELSE 0]
    IN  IF t = <<>> THEN <<>> ELSE t

CategoryIndex(acct) == CHOOSE r \in 1..Len(CategoryOrder) : CategoryOrder[r] = acct

\* target total minus the sum of the per-category totals of rounded amounts
Residual(sums) == total_payment - SumSeq(sums)

\* the category with the largest rounded sum, the smallest name among ties
LargestCategory(sums) ==
    CHOOSE a \in ItemCategories :
        \A b \in ItemCategories \ {a} :
            \/ sums[CategoryIndex(b)] < sums[CategoryIndex(a)]
            \/ sums[CategoryIndex(b)] = sums[CategoryIndex(a)] /\ <<a, b>> \in NameBefore

\* C20: the whole rounding residual is added to exactly one category, the
\* one with the largest accumulated total and among several largest the one
\* with the smallest name; every other category's amount is the sum of its
\* items' rounded scaled amounts; the result is sorted by category name and
\* has one entry for each distinct category.
C20_ResidualToLargestCategory ==
    (alloc_pc = "done" /\ listed_total(items) # 0) =>
        \A sums \in {RoundedSums} : \A largest \in {LargestCategory(sums)} :
            /\ Len(by_category) = Cardinality(ItemCategories)
            /\ {by_category[c].acct : c \in 1..Len(by_category)} = ItemCategories
            /\ \A c, d \in 1..Len(by_category) :
                  c < d => <<by_category[c].acct, by_category[d].acct>> \in NameBefore
            /\ \A c \in 1..Len(by_category) :
                  by_category[c].total =
                      IF by_category[c].acct = largest
                      THEN sums[CategoryIndex(by_category[c].acct)] + Residual(sums)
                      ELSE sums[CategoryIndex(by_category[c].acct)]

\* two categories tie for the largest rounded sum, the items arrive in the
\* order Home, Food, and the residual went to Food
C20_Witness ==
    /\ alloc_pc = "done"
    /\ listed_total(items) # 0
    /\ Len(items) >= 2
    /\ items[1].category = "Expenses:Home"
    /\ Len(by_category) >= 2
    /\ by_category[1].acct = "Expenses:Food"
    /\ \E sums \in {RoundedSums} :
           /\ Residual(sums) # 0
           /\ sums[CategoryIndex("Expenses:Food")] = sums[CategoryIndex("Expenses:Home")]
           /\ \A c \in ItemCategories :
                 sums[CategoryIndex(c)] <= sums[CategoryIndex("Expenses:Food")]
           /\ by_category[1].total = sums[CategoryIndex("Expenses:Food")] + Residual(sums)
           /\ by_category[2].total = sums[CategoryIndex("Expenses:Home")]

-----------------------------------------------------------------------------
(***************************************************************************)
(* The import pipeline: import_cmd (cli.py), from the extraction of the    *)
(* files to the writing of the ledger files, lines 453-511.  One action    *)
(* per iteration of the loop over the importers of phase 2, one for each   *)
(* of the calls of phase 2.5, one per iteration of the loop of phase 3.    *)
(* ic_calls lists the functions of the pipeline that import_cmd has        *)
(* called.  The importers are bank and platform importers whose            *)
(* transactions carry no bare platform account, so that                    *)
(* _resolve_cross_platform skips every transaction (lines 286-287) and     *)
(* _merge_aldi_with_payments returns at once (lines 364-365).              *)
(***************************************************************************)

MaxIcTxs == 2

\* the importers of importer_files, in the order of the dictionary
IcImporters == <<"JdImporter", "CmbImporter">>

IcTx(ref, src, ctr, day, cat) ==
    [reference_id |-> ref, date |-> day, amount |-> -10000, currency |-> "CNY",
     tx_type |-> "expense", source_account |-> src, counter_account |-> ctr,
     categorized |-> cat, link |-> NONE, aldi_items |-> <<>>, costco_items |-> <<>>,
     jd_items |-> <<>>, jd_gift_card |-> NONE, foreign_amount |-> NONE,
     foreign_currency |-> NONE]

\* what importer.extract returns: terminal expenses on a clearing account,
\* a bridge, a bank payment into a clearing account and a plain bank
\* expense; no importer sets metadata["link"]
IcTemplates ==
    {IcTx("ORDER001", JD, NONE, 2, NONE),
     IcTx("ORDER002", JD, NONE, 1, "Expenses:Food"),
     IcTx("JD_TRADE001", JDWX, JD, 1, NONE),
     IcTx(NONE, CMB, JDWX, 1, NONE),
     IcTx(NONE, CMB, NONE, 3, NONE)}

InitImport ==
    /\ ic_extracted \in [1..Len(IcImporters) -> SeqsUpTo(IcTemplates, MaxIcTxs)]
    /\ ic_all_txns = <<>>
    /\ ic_pos = 1
    /\ ic_written = <<>>
    /\ ic_calls = <<>>
    /\ ic_pc = "extract"
    /\ IcOthersIdle

\* phase 2, lines 459-483: the transactions of one importer are extracted
\* and deduplicated
ExtractAndDeduplicate ==
    /\ ic_pc = "extract"
    /\ ic_pos <= Len(IcImporters)
    /\ ic_all_txns' = Append(ic_all_txns, deduplicate(ic_extracted[ic_pos]))
    /\ ic_calls' = Append(ic_calls, "_deduplicate")
    /\ ic_pos' = ic_pos + 1
    /\ UNCHANGED <<ic_extracted, ic_written, ic_pc>>
    /\ UNCHANGED icOthers

\* phase 2.5a, line 486: no source_account is a platform account, so every
\* transaction is skipped
ResolveCrossPlatform ==
    /\ ic_pc = "extract"
    /\ ic_pos > Len(IcImporters)
    /\ \A i \in 1..Len(ic_all_txns) : \A k \in 1..Len(ic_all_txns[i]) :
          ~is_platform_account(ic_all_txns[i][k].source_account)
    /\ ic_calls' = Append(ic_calls, "_resolve_cross_platform")
    /\ ic_pc' = "merge"
    /\ UNCHANGED <<ic_extracted, ic_all_txns, ic_pos, ic_written>>
    /\ UNCHANGED icOthers

\* phase 2.5b, line 492: there is no AldiImporter, so the call returns at
\* line 365
MergeAldiWithPayments ==
    /\ ic_pc = "merge"
    /\ \A i \in 1..Len(IcImporters) : IcImporters[i] # "AldiImporter"
    /\ ic_calls' = Append(ic_calls, "_merge_aldi_with_payments")
    /\ ic_pc' = "write"
    /\ ic_pos' = 1
    /\ UNCHANGED <<ic_extracted, ic_all_txns, ic_written>>
    /\ UNCHANGED icOthers

\* phase 3, lines 498-500: an importer without transactions is passed over
WriteNothing ==
    /\ ic_pc = "write"
    /\ ic_pos <= Len(ic_all_txns)
    /\ ic_all_txns[ic_pos] = <<>>
    /\ ic_pos' = ic_pos + 1
    /\ UNCHANGED <<ic_extracted, ic_all_txns, ic_written, ic_calls, ic_pc>>
    /\ UNCHANGED icOthers

\* phase 3, lines 502-511: the transactions of one importer are written to
\* its file by write_transactions(all_txns, output_path, categorizer)
WriteImporter ==
    /\ ic_pc = "write"
    /\ ic_pos <= Len(ic_all_txns)
    /\ ic_all_txns[ic_pos] # <<>>
    /\ ic_written' = Append(ic_written,
          [importer |-> ic_pos,
           entries  |-> SortedByDate([k \in 1..Len(ic_all_txns[ic_pos]) |->
                                         bean_tx(ic_all_txns[ic_pos][k], NONE)])])
    /\ ic_calls' = Append(ic_calls, "write_transactions")
    /\ ic_pos' = ic_pos + 1
    /\ UNCHANGED <<ic_extracted, ic_all_txns, ic_pc>>
    /\ UNCHANGED icOthers

\* lines 513-523: the loop is over and the totals are printed
ImportDone ==
    /\ ic_pc = "write"
    /\ ic_pos > Len(ic_all_txns)
    /\ ic_pc' = "done"
    /\ UNCHANGED <<ic_extracted, ic_all_txns, ic_pos, ic_written, ic_calls>>
    /\ UNCHANGED icOthers

NextImport ==
    \/ ExtractAndDeduplicate \/ ResolveCrossPlatform \/ MergeAldiWithPayments
    \/ WriteNothing \/ WriteImporter \/ ImportDone

SpecImport == InitImport /\ [][NextImport]_vars

\* C25: in import_cmd every call of write_transactions comes after a call
\* of assign_clearing_links, which comes after the deduplication, so that
\* every terminal expense handed to the writer carries its link and its
\* entry has it.
C25_PropagatorRunsBeforeWriting ==
    /\ \A w \in 1..Len(ic_calls) :
          ic_calls[w] = "write_transactions" =>
              \E p \in 1..(w - 1) :
                  /\ ic_calls[p] = "assign_clearing_links"
                  /\ \A d \in 1..Len(ic_calls) : ic_calls[d] = "_deduplicate" => d < p
    /\ \A f \in 1..Len(ic_written) :
          /\ \A k \in 1..Len(ic_all_txns[ic_written[f].importer]) :
                TerminalExpense(ic_all_txns[ic_written[f].importer][k]) =>
                    Truthy(ic_all_txns[ic_written[f].importer][k].link)
          /\ \A e \in 1..Len(ic_written[f].entries) :
                (/\ StartsWith(ic_written[f].entries[e].postings[1].account,
                               "Assets:Clearing:")
                 /\ ~StartsWith(ic_written[f].entries[e].postings[2].account,
                                "Assets:Clearing:")) =>
                    ic_written[f].entries[e].links # {}

=============================================================================
